---- MODULE Spec2Model ----
(***************************************************************************)
(* A model of pyx: the layered byte-stream readers of pyx/io.py            *)
(* (BufferedReader, LengthReader, BoundaryReader over an asyncio           *)
(* StreamReader) and the HTTP connection loop of pyx/http.py.              *)
(*                                                                         *)
(* Bytes are one-character strings, byte strings are sequences of them.    *)
(* Python indices are 0-based; the helpers below keep Python's semantics.  *)
(***************************************************************************)
EXTENDS Integers, Sequences, FiniteSets, TLC

VARIABLES
    src,            \* the StreamReader: bytes fed and not yet read, then EOF
    buffer,         \* BufferedMixin._buffer: list of pushed-back chunks
    result,         \* outcome of the last completed reader call
    length,         \* LengthReader._length
    remaining,      \* LengthReader._remaining
    budget,         \* bytes the LengthReader may still take: L + put - taken
    hit_boundary,   \* BoundaryReader._hit_boundary
    pc,             \* position of the BoundaryReader coroutine
    rd,             \* locals of BoundaryReader.read: n, buf, data
    rx,             \* locals of BoundaryReader.readexactly: on, n, readn, buf
    out,            \* bytes returned so far by the reader under test
    done,           \* a call of the reader under test has returned empty
    stream0,        \* the stream as constructed: [A, T, all]
    conn,           \* per connection, the HttpConnection: closed flag and its writer
    task,           \* per connection, the HttpConnectionCB coroutine: position and input
    req,            \* per connection, the HttpRequest being served
    cb,             \* per connection, the HttpRequestCB call for that request
    res,            \* a request being resolved: the traversal and the dispatch
    msg,            \* a message being parsed, looked up in or written
    aio             \* a file operation in progress: the file, the future, the event loop

lengthVars == <<length, remaining, budget>>
boundaryVars == <<hit_boundary, pc, rd, rx>>
ghostVars == <<out, done, stream0>>
httpVars == <<conn, task, req, cb>>
vars == <<src, buffer, result, length, remaining, budget, hit_boundary, pc, rd, rx, out, done, stream0,
         conn, task, req, cb, res, msg, aio>>

----------------------------------------------------------------------------
(* Bounds of the model *)

\* longest stream fed to the StreamReader in the BufferedReader model
MaxSrc == 2
\* most chunks held in the pushback at once
MaxChunks == 2
\* most bytes held in the pushback when a caller pushes more
MaxPush == 3
\* largest n passed to read(n) / readexactly(n)
MaxN == 3
\* largest length a LengthReader is constructed with
MaxLength == 3
\* longest part before the boundary marker
MaxPart == 2

----------------------------------------------------------------------------
(* Python byte-string helpers *)

Min(a, b) == IF a < b THEN a ELSE b

Max(a, b) == IF a > b THEN a ELSE b

\* s[i:j] for 0 <= i, 0 <= j
Slice(s, i, j) == SubSeq(s, i + 1, Min(j, Len(s)))

\* s[i:]
SliceFrom(s, i) == SubSeq(s, i + 1, Len(s))

\* list.reverse()
Reverse(l) == [i \in 1..Len(l) |-> l[Len(l) + 1 - i]]

\* b''.join(l)
RECURSIVE Join(_)
Join(l) == IF l = <<>> THEN <<>> ELSE Head(l) \o Join(Tail(l))

\* s.find(pat, start): the lowest index >= start where pat occurs, else -1
Find(s, pat, start) ==
    LET hits == {i \in start..(Len(s) - Len(pat)) : SubSeq(s, i + 1, i + Len(pat)) = pat}
    IN IF hits = {} THEN -1 ELSE CHOOSE i \in hits : \A j \in hits : i <= j

\* all sequences over S of length 0..n
SeqsUpTo(S, n) == UNION {[1..k -> S] : k \in 0..n}

----------------------------------------------------------------------------
(* The inner source: asyncio.StreamReader holding the bytes s, EOF after.  *)
(* read(n) with n > 0 returns whatever has arrived, at least one byte and  *)
(* at most n: how the stream arrives in chunks is the environment's choice.*)

\* StreamReader.read(n): the possible [data, src] outcomes
StreamReader_read(s, n) ==
    IF n = 0 THEN {[data |-> <<>>, src |-> s]}
    ELSE IF n < 0 \/ s = <<>> THEN {[data |-> s, src |-> <<>>]}
    ELSE {[data |-> Slice(s, 0, k), src |-> SliceFrom(s, k)] : k \in 1..Min(n, Len(s))}

\* StreamReader.readline(): through the first "\n", or to EOF
StreamReader_readline(s) ==
    LET i == Find(s, <<"\n">>, 0)
        k == IF i < 0 THEN Len(s) ELSE i + 1
    IN [data |-> Slice(s, 0, k), src |-> SliceFrom(s, k)]

\* StreamReader.readexactly(n): n bytes, or IncompleteReadError with what was left
StreamReader_readexactly(s, n) ==
    IF n <= 0 THEN [data |-> <<>>, exc |-> "none", src |-> s]
    ELSE IF Len(s) < n THEN [data |-> s, exc |-> "IncompleteReadError", src |-> <<>>]
    ELSE [data |-> Slice(s, 0, n), exc |-> "none", src |-> SliceFrom(s, n)]

----------------------------------------------------------------------------
(* BufferedMixin / BufferedReader (pyx/io.py).  Each operator takes the    *)
(* reader's state (its _buffer b and the source s) and gives the outcome:  *)
(* [ret, exc, buffer, src, calls], calls counting the reads of the source. *)

\* put adding the chunk below the ones already pushed back
put_below(b, data) == <<data>> \o b

\* BufferedMixin.put
put(b, data) == Append(b, data)

\* BufferedMixin.flush_buffer: [buffered, buffer]
flush_buffer(b) == [buffered |-> Join(Reverse(b)), buffer |-> <<>>]

\* read_from_buffer's loop taking the oldest chunk first (pop(0) for pop())
RECURSIVE read_from_buffer_loop_fifo(_, _, _)
read_from_buffer_loop_fifo(b, buffered, n) ==
    IF n > 0 /\ Len(b) > 0
    THEN LET data == b[1]
             popped == Tail(b)
         IN IF Len(data) > n
            THEN read_from_buffer_loop_fifo(Append(popped, SliceFrom(data, n)),
                                            buffered \o Slice(data, 0, n), 0)
            ELSE read_from_buffer_loop_fifo(popped, buffered \o data, n - Len(data))
    ELSE [buffered |-> buffered, n |-> n, buffer |-> b]

\* the while loop of read_from_buffer (n >= 0)
RECURSIVE read_from_buffer_loop(_, _, _)
read_from_buffer_loop(b, buffered, n) ==
    IF n > 0 /\ Len(b) > 0
    THEN LET data == b[Len(b)]
             popped == SubSeq(b, 1, Len(b) - 1)
         IN IF Len(data) > n
            THEN read_from_buffer_loop(Append(popped, SliceFrom(data, n)),
                                       buffered \o Slice(data, 0, n), 0)
            ELSE read_from_buffer_loop(popped, buffered \o data, n - Len(data))
    ELSE [buffered |-> buffered, n |-> n, buffer |-> b]

\* read_from_buffer without the reverse() of the n < 0 branch
read_from_buffer_noreverse(b, n) ==
    IF n < 0
    THEN [buffered |-> Join(b), n |-> n, buffer |-> <<>>]
    ELSE read_from_buffer_loop(b, <<>>, n)

\* BufferedMixin.read_from_buffer: [buffered, n, buffer]
read_from_buffer(b, n) ==
    IF n < 0
    THEN [buffered |-> Join(Reverse(b)), n |-> n, buffer |-> <<>>]
    ELSE read_from_buffer_loop(b, <<>>, n)

\* BufferedReader.read
BufferedReader_read(b, s, n) ==
    LET r == read_from_buffer(b, n)
    IN IF r.n # 0
       THEN {[ret |-> r.buffered \o d.data, exc |-> "none",
              buffer |-> r.buffer, src |-> d.src, calls |-> 1]
             : d \in StreamReader_read(s, r.n)}
       ELSE {[ret |-> r.buffered, exc |-> "none", buffer |-> r.buffer, src |-> s, calls |-> 0]}

\* BufferedReader.readline returning the line without pushing the rest of the
\* flushed pushback back
BufferedReader_readline_drops_rest(b, s) ==
    LET f == flush_buffer(b)
        nl_idx == Find(f.buffered, <<"\n">>, 0)
    IN IF nl_idx < 0
       THEN LET d == StreamReader_readline(s)
            IN [ret |-> f.buffered \o d.data, exc |-> "none",
                buffer |-> f.buffer, src |-> d.src, calls |-> 1]
       ELSE [ret |-> Slice(f.buffered, 0, nl_idx + 1), exc |-> "none",
             buffer |-> f.buffer, src |-> s, calls |-> 0]

\* BufferedReader.readline
BufferedReader_readline(b, s) ==
    LET f == flush_buffer(b)
        nl_idx == Find(f.buffered, <<"\n">>, 0)
    IN IF nl_idx < 0
       THEN LET d == StreamReader_readline(s)
            IN [ret |-> f.buffered \o d.data, exc |-> "none",
                buffer |-> f.buffer, src |-> d.src, calls |-> 1]
       ELSE [ret |-> Slice(f.buffered, 0, nl_idx + 1), exc |-> "none",
             buffer |-> put(f.buffer, SliceFrom(f.buffered, nl_idx + 1)),
             src |-> s, calls |-> 0]

\* BufferedReader.readexactly
BufferedReader_readexactly(b, s, n) ==
    IF n < 0
    THEN [ret |-> <<>>, exc |-> "none", buffer |-> b, src |-> s, calls |-> 0]
    ELSE LET r == read_from_buffer(b, n)
         IN IF r.n # 0
            THEN LET d == StreamReader_readexactly(s, r.n)
                 IN IF d.exc = "none"
                    THEN [ret |-> r.buffered \o d.data, exc |-> "none",
                          buffer |-> r.buffer, src |-> d.src, calls |-> 1]
                    \* the inner error propagates with the inner partial data
                    ELSE [ret |-> d.data, exc |-> d.exc,
                          buffer |-> r.buffer, src |-> d.src, calls |-> 1]
            ELSE [ret |-> r.buffered, exc |-> "none", buffer |-> r.buffer, src |-> s, calls |-> 0]

\* the logical stream of a BufferedReader: pushback, latest chunk first, then the source
Logical(b, s) == Join(Reverse(b)) \o s

----------------------------------------------------------------------------
(* The BufferedReader under test: put / read / readline / readexactly in   *)
(* any order over any short stream.                                        *)

BufBytes == {"a", "b", "\n"}

\* chunks a caller pushes back
PutChunks == {<<>>, <<"a">>, <<"b">>, <<"a", "b">>, <<"b", "\n">>, <<"\n", "a">>}

\* the record of a completed call: what was called with which n, what it returned
\* or raised (ret is then the error's partial data), how often it read the source,
\* and how many bytes the pushback held when it was called
NoResult == [op |-> "none", n |-> 0, ret |-> <<>>, exc |-> "none", calls |-> 0, had |-> 0]

Outcome(op, n, o, b) ==
    [op |-> op, n |-> n, ret |-> o.ret, exc |-> o.exc, calls |-> o.calls, had |-> Len(Join(b))]

\* state of the layers a specification does not use
IdleLength == length = 0 /\ remaining = 0 /\ budget = 0

IdleBoundary ==
    /\ hit_boundary = FALSE
    /\ pc = "idle"
    /\ rd = [n |-> 0, buf |-> <<>>, data |-> <<>>]
    /\ rx = [on |-> FALSE, n |-> 0, readn |-> 0, buf |-> <<>>]

IdleGhost == out = <<>> /\ done = FALSE /\ stream0 = [A |-> <<>>, T |-> <<>>, all |-> <<>>]

IdleHttp == conn = <<>> /\ task = <<>> /\ req = <<>> /\ cb = <<>>


InitBuf ==
    /\ src \in SeqsUpTo(BufBytes, MaxSrc)
    /\ buffer = <<>>
    /\ result = NoResult
    /\ IdleLength /\ IdleBoundary /\ IdleGhost /\ IdleHttp /\ res = <<>> /\ msg = <<>> /\ aio = <<>>

BufPut ==
    /\ Len(buffer) < MaxChunks
    /\ \E x \in PutChunks :
        /\ Len(Join(buffer)) + Len(x) <= MaxPush
        /\ buffer' = put(buffer, x)
        /\ result' = [op |-> "put", n |-> Len(x), ret |-> x, exc |-> "none", calls |-> 0,
                      had |-> Len(Join(buffer))]
    /\ UNCHANGED <<src, lengthVars, boundaryVars, httpVars, res, msg, ghostVars, aio>>

BufRead ==
    /\ \E n \in (-1)..MaxN : \E o \in BufferedReader_read(buffer, src, n) :
        /\ buffer' = o.buffer
        /\ src' = o.src
        /\ result' = Outcome("read", n, o, buffer)
    /\ UNCHANGED <<lengthVars, boundaryVars, httpVars, res, msg, ghostVars, aio>>

BufReadline ==
    /\ LET o == BufferedReader_readline(buffer, src)
       IN /\ buffer' = o.buffer
          /\ src' = o.src
          /\ result' = Outcome("readline", 0, o, buffer)
    /\ UNCHANGED <<lengthVars, boundaryVars, httpVars, res, msg, ghostVars, aio>>

BufReadexactly ==
    /\ \E n \in (-1)..MaxN :
        LET o == BufferedReader_readexactly(buffer, src, n)
        IN /\ buffer' = o.buffer
           /\ src' = o.src
           /\ result' = Outcome("readexactly", n, o, buffer)
    /\ UNCHANGED <<lengthVars, boundaryVars, httpVars, res, msg, ghostVars, aio>>

SpecBuf == InitBuf /\ [][BufPut \/ BufRead \/ BufReadline \/ BufReadexactly]_vars

\* C3: a BufferedReader.read(n), n >= 0, returns the first n bytes of the pushback
\* (latest chunk first, each chunk whole) without reading the source and leaves the
\* rest of the pushback next in line; only when the pushback holds fewer than n
\* bytes does it read the source, once, and append what the source gave.
C3_ReadFromPushback ==
    [][(result'.op = "read" /\ result'.n >= 0) =>
        LET P == Join(Reverse(buffer))
            n == result'.n
        IN IF Len(P) >= n
           THEN /\ result'.ret = Slice(P, 0, n)
                /\ result'.calls = 0
                /\ src' = src
                /\ Join(Reverse(buffer')) = SliceFrom(P, n)
           ELSE /\ result'.calls = 1
                /\ buffer' = <<>>
                /\ Len(result'.ret) <= n
                /\ result'.ret \o src' = P \o src
                /\ Len(result'.ret) >= Len(P)]_vars

\* a read that ended inside the pushback, and one that went on to the source
C3_Witness ==
    /\ result.op = "read" /\ result.n > 0 /\ result.had > result.n
    /\ result.calls = 0 /\ Len(buffer) = 2 /\ Len(result.ret) = result.n
    /\ src # <<>>

\* C4: read(-1) returns the pushback, latest chunk first and each chunk whole,
\* followed by the whole source up to EOF, and leaves the pushback empty.
C4_ReadAll ==
    [][(result'.op = "read" /\ result'.n < 0) =>
        /\ result'.ret = Join(Reverse(buffer)) \o src
        /\ buffer' = <<>>
        /\ src' = <<>>]_vars

C4_Witness ==
    /\ result.op = "read" /\ result.n < 0
    /\ result.had > 1 /\ Len(result.ret) > result.had /\ buffer = <<>>

----------------------------------------------------------------------------
(* LengthReader (pyx/io.py) over a BufferedReader.  Each operator takes    *)
(* _remaining and the inner reader's state and gives the outcome           *)
(* [ret, exc, remaining, buffer, src, calls], calls counting the calls     *)
(* made on the inner reader.                                               *)

\* LengthReader.read asking the inner reader for n, not min(remaining, n)
LengthReader_read_uncapped(rem, b, s, n) ==
    IF rem > 0
    THEN {[ret |-> o.ret, exc |-> "none", remaining |-> rem - Len(o.ret),
           buffer |-> o.buffer, src |-> o.src, calls |-> 1]
          : o \in BufferedReader_read(b, s, IF n < 0 THEN rem ELSE n)}
    ELSE {[ret |-> <<>>, exc |-> "none", remaining |-> rem,
           buffer |-> b, src |-> s, calls |-> 0]}

\* LengthReader.read
LengthReader_read(rem, b, s, n) ==
    IF rem > 0
    THEN {[ret |-> o.ret, exc |-> "none", remaining |-> rem - Len(o.ret),
           buffer |-> o.buffer, src |-> o.src, calls |-> 1]
          : o \in BufferedReader_read(b, s, IF n < 0 THEN rem ELSE Min(rem, n))}
    ELSE {[ret |-> <<>>, exc |-> "none", remaining |-> rem,
           buffer |-> b, src |-> s, calls |-> 0]}

\* LengthReader.readline cutting a long line without pushing the rest back
LengthReader_readline_drops_overflow(rem, b, s) ==
    IF rem > 0
    THEN LET o == BufferedReader_readline(b, s)
         IN IF Len(o.ret) > rem
            THEN [ret |-> Slice(o.ret, 0, rem), exc |-> "none", remaining |-> 0,
                  buffer |-> o.buffer, src |-> o.src, calls |-> 1]
            ELSE [ret |-> o.ret, exc |-> "none", remaining |-> rem - Len(o.ret),
                  buffer |-> o.buffer, src |-> o.src, calls |-> 1]
    ELSE [ret |-> <<>>, exc |-> "none", remaining |-> rem, buffer |-> b, src |-> s, calls |-> 0]

\* LengthReader.readline
LengthReader_readline(rem, b, s) ==
    IF rem > 0
    THEN LET o == BufferedReader_readline(b, s)
         IN IF Len(o.ret) > rem
            THEN [ret |-> Slice(o.ret, 0, rem), exc |-> "none", remaining |-> 0,
                  buffer |-> put(o.buffer, SliceFrom(o.ret, rem)), src |-> o.src, calls |-> 1]
            ELSE [ret |-> o.ret, exc |-> "none", remaining |-> rem - Len(o.ret),
                  buffer |-> o.buffer, src |-> o.src, calls |-> 1]
    ELSE [ret |-> <<>>, exc |-> "none", remaining |-> rem, buffer |-> b, src |-> s, calls |-> 0]

\* LengthReader.readexactly asking the inner reader for n bytes also when
\* fewer remain
LengthReader_readexactly_uncapped(rem, b, s, n) ==
    IF n < 0
    THEN [ret |-> <<>>, exc |-> "none", remaining |-> rem, buffer |-> b, src |-> s, calls |-> 0]
    ELSE IF rem > 0
    THEN LET o == BufferedReader_readexactly(b, s, n)
         IN IF o.exc = "none"
            THEN [ret |-> o.ret, exc |-> "none", remaining |-> rem - Len(o.ret),
                  buffer |-> o.buffer, src |-> o.src, calls |-> 1]
            ELSE [ret |-> o.ret, exc |-> o.exc, remaining |-> rem,
                  buffer |-> o.buffer, src |-> o.src, calls |-> 1]
    ELSE [ret |-> <<>>, exc |-> "IncompleteReadError", remaining |-> rem,
          buffer |-> b, src |-> s, calls |-> 0]

\* LengthReader.readexactly
LengthReader_readexactly(rem, b, s, n) ==
    IF n < 0
    THEN [ret |-> <<>>, exc |-> "none", remaining |-> rem, buffer |-> b, src |-> s, calls |-> 0]
    ELSE IF rem > 0
    THEN IF rem < n
         THEN LET o == BufferedReader_readexactly(b, s, rem)
              \* raises with the data read, or lets the inner error through
              IN [ret |-> o.ret, exc |-> "IncompleteReadError", remaining |-> rem,
                  buffer |-> o.buffer, src |-> o.src, calls |-> 1]
         ELSE LET o == BufferedReader_readexactly(b, s, n)
              IN IF o.exc = "none"
                 THEN [ret |-> o.ret, exc |-> "none", remaining |-> rem - Len(o.ret),
                       buffer |-> o.buffer, src |-> o.src, calls |-> 1]
                 ELSE [ret |-> o.ret, exc |-> o.exc, remaining |-> rem,
                       buffer |-> o.buffer, src |-> o.src, calls |-> 1]
    ELSE [ret |-> <<>>, exc |-> "IncompleteReadError", remaining |-> rem,
          buffer |-> b, src |-> s, calls |-> 0]

\* bytes an operation took from the inner reader and did not push back
Taken(b2, s2) == Len(Logical(buffer, src)) - Len(Logical(b2, s2))

----------------------------------------------------------------------------
(* The LengthReader under test, over a BufferedReader that may already     *)
(* hold a pushed-back chunk.                                               *)

\* a LengthReader of any length over an inner reader holding the pushback b0
InitLenOver(b0) ==
    /\ src \in SeqsUpTo(BufBytes, MaxSrc)
    /\ buffer \in b0
    /\ result = NoResult
    /\ length \in 0..MaxLength
    /\ remaining = length
    /\ budget = length
    /\ out = <<>> /\ done = FALSE
    /\ stream0 = [A |-> <<>>, T |-> <<>>, all |-> Logical(buffer, src)]
    /\ IdleBoundary /\ IdleHttp /\ res = <<>> /\ msg = <<>> /\ aio = <<>>

InitLen == InitLenOver({<<>>})

InitLenDrain == InitLenOver({<<>>} \cup {<<x>> : x \in PutChunks})

\* the effect of a completed LengthReader call with outcome o
LenApply(op, n, o) ==
    /\ buffer' = o.buffer
    /\ src' = o.src
    /\ remaining' = o.remaining
    /\ budget' = budget - Taken(o.buffer, o.src)
    /\ result' = Outcome(op, n, o, buffer)
    /\ UNCHANGED <<length, boundaryVars, httpVars, res, msg, stream0, aio>>

\* LengthReader.put pushing the chunk back without growing _remaining
LenPut_keeps_remaining ==
    /\ Len(buffer) < MaxChunks
    /\ \E x \in PutChunks :
        /\ Len(Join(buffer)) + Len(x) <= MaxPush
        /\ remaining + Len(x) <= MaxLength
        /\ buffer' = put(buffer, x)
        /\ remaining' = remaining
        /\ budget' = budget + Len(x)
        /\ result' = [op |-> "put", n |-> Len(x), ret |-> x, exc |-> "none", calls |-> 1,
                      had |-> Len(Join(buffer))]
    /\ UNCHANGED <<src, length, boundaryVars, httpVars, res, msg, ghostVars, aio>>

\* LengthReader.put
LenPut ==
    /\ Len(buffer) < MaxChunks
    /\ \E x \in PutChunks :
        /\ Len(Join(buffer)) + Len(x) <= MaxPush
        /\ remaining + Len(x) <= MaxLength
        /\ buffer' = put(buffer, x)
        /\ remaining' = remaining + Len(x)
        /\ budget' = budget + Len(x)
        /\ result' = [op |-> "put", n |-> Len(x), ret |-> x, exc |-> "none", calls |-> 1,
                      had |-> Len(Join(buffer))]
    /\ UNCHANGED <<src, length, boundaryVars, httpVars, res, msg, ghostVars, aio>>

LenRead ==
    /\ \E n \in (-1)..MaxN : \E o \in LengthReader_read(remaining, buffer, src, n) :
        LenApply("read", n, o)
    /\ UNCHANGED <<out, done>>

LenReadline ==
    /\ LenApply("readline", 0, LengthReader_readline(remaining, buffer, src))
    /\ UNCHANGED <<out, done>>

LenReadexactly ==
    /\ \E n \in (-1)..MaxN :
        LenApply("readexactly", n, LengthReader_readexactly(remaining, buffer, src, n))
    /\ UNCHANGED <<out, done>>

SpecLen == InitLen /\ [][LenPut \/ LenRead \/ LenReadline \/ LenReadexactly]_vars

\* a call ended the stream: it asked for bytes and returned none
Exhausted(r) == r.ret = <<>> /\ ~(r.op = "read" /\ r.n = 0)

\* read(n) calls until one returns empty
DrainRead ==
    /\ ~done
    /\ \E n \in (-1)..MaxN : \E o \in LengthReader_read(remaining, buffer, src, n) :
        LenApply("read", n, o)
    /\ out' = out \o result'.ret
    /\ done' = Exhausted(result')

\* readline() calls until one returns empty
DrainReadline ==
    /\ ~done
    /\ LenApply("readline", 0, LengthReader_readline(remaining, buffer, src))
    /\ out' = out \o result'.ret
    /\ done' = Exhausted(result')

SpecLenDrain == InitLenDrain /\ [][DrainRead \/ DrainReadline]_vars

\* C5: over any sequence of read(n) and readline() calls, the bytes returned are
\* the first bytes of the inner reader's stream in order, at most length of them,
\* the rest stays readable from the inner reader, and once a call has returned
\* empty the total is min(length, bytes the inner reader held).
C5_LengthBound ==
    /\ out \o Logical(buffer, src) = stream0.all
    /\ Len(out) <= length
    /\ done => Len(out) = Min(length, Len(stream0.all))

\* the reader ran dry after exactly length bytes with more left in the inner reader
C5_Witness ==
    /\ done /\ length > 1 /\ Len(out) = length
    /\ Len(Logical(buffer, src)) > 0 /\ buffer # <<>> /\ src # <<>>

\* C6: remaining is always length plus the bytes put minus the bytes taken from
\* the inner reader and not pushed back, and is never negative.
C6_RemainingIsBudget == remaining = budget /\ remaining >= 0

----------------------------------------------------------------------------
(* BoundaryReader (pyx/io.py) over a BufferedReader.                       *)

\* the boundary bytes the reader is constructed with
boundary == <<"b">>

\* BoundaryReader._boundary
_boundary == <<"\r", "\n", "-", "-">> \o boundary

DEFAULT_BLOCK_SIZE == 8192

\* how many bytes _read_next_block asks the inner reader for
to_read(n, buf) ==
    IF n < 0
    THEN DEFAULT_BLOCK_SIZE
    ELSE LET rem == Max(n - Len(buf), 0)
         IN IF rem < Len(_boundary) * 2 THEN rem + Len(_boundary) ELSE rem

\* BoundaryReader._read_next_block: the inner read's outcomes
_read_next_block(n, buf, b, s) == BufferedReader_read(b, s, to_read(n, buf))

\* the classification and push-back of _strip_boundary, after any padding read:
\* [exc, has_trailer, buf, buffer, src]
strip_classify(buf, bd_idx, b, s) ==
    LET search_idx == bd_idx + Len(_boundary)
    IN IF Slice(buf, search_idx, search_idx + 4) = <<"-", "-", "\r", "\n">>
       THEN [exc |-> "none", has_trailer |-> TRUE, buf |-> Slice(buf, 0, bd_idx),
             buffer |-> put(b, SliceFrom(buf, search_idx + 4)), src |-> s]
       ELSE IF Slice(buf, search_idx, search_idx + 2) = <<"\r", "\n">>
       THEN [exc |-> "none", has_trailer |-> FALSE, buf |-> Slice(buf, 0, bd_idx),
             buffer |-> put(b, SliceFrom(buf, search_idx + 2)), src |-> s]
       ELSE [exc |-> "none", has_trailer |-> FALSE, buf |-> Slice(buf, 0, bd_idx),
             buffer |-> put(b, SliceFrom(buf, search_idx)), src |-> s]

\* BoundaryReader._strip_boundary.  mutable says whether buf is a bytearray
\* (read) or bytes (readline): bytes has no extend(), so the padding read is
\* followed by an AttributeError there.
_strip_boundary(buf, bd_idx, b, s, mutable) ==
    IF bd_idx + Len(_boundary) > Len(buf) - 4
    THEN {IF mutable
          THEN strip_classify(buf \o o.ret, bd_idx, o.buffer, o.src)
          ELSE [exc |-> "AttributeError", has_trailer |-> FALSE, buf |-> <<>>,
                buffer |-> o.buffer, src |-> o.src]
          : o \in BufferedReader_read(b, s, 4)}
    ELSE {strip_classify(buf, bd_idx, b, s)}

\* the end of BoundaryReader.read, from "if n >= 0 and len(buf) > n" on:
\* the read returns, [kind, ret, hit, buffer, src]
read_return(n, buf, hit, b, s) ==
    IF n >= 0 /\ Len(buf) > n
    THEN [kind |-> "return", ret |-> Slice(buf, 0, n), hit |-> hit,
          buffer |-> put(b, SliceFrom(buf, n)), src |-> s]
    ELSE [kind |-> "return", ret |-> buf, hit |-> hit, buffer |-> b, src |-> s]

\* the suspension of BoundaryReader.read in its loop, with the block just read
read_await(buf, o) ==
    [kind |-> "await", buf |-> buf, data |-> o.ret, buffer |-> o.buffer, src |-> o.src]

\* read_start without the test of _hit_boundary
read_start_unchecked(hit, n, b, s) ==
    {read_await(<<>>, o) : o \in _read_next_block(n, <<>>, b, s)}

\* BoundaryReader.read from its call to the first block read
read_start(hit, n, b, s) ==
    IF hit
    THEN {[kind |-> "return", ret |-> <<>>, hit |-> hit, buffer |-> b, src |-> s]}
    ELSE {read_await(<<>>, o) : o \in _read_next_block(n, <<>>, b, s)}

\* read_iter searching only the block just read, not the bytes before it
read_iter_no_overlap(n, buf, data, b, s) ==
    IF Len(data) > 0 /\ (n < 0 \/ Len(buf) < n + Len(_boundary))
    THEN LET buf1 == buf \o data
             search_idx == Max(Len(buf1) - Len(data), 0)
             bd_idx == Find(buf1, _boundary, search_idx)
         IN IF bd_idx >= 0
            THEN {read_return(n, st.buf, TRUE, st.buffer, st.src)
                  : st \in _strip_boundary(buf1, bd_idx, b, s, TRUE)}
            ELSE {read_await(buf1, o) : o \in _read_next_block(n, buf1, b, s)}
    ELSE {read_return(n, buf \o data, FALSE, b, s)}

\* BoundaryReader.read from the loop test to the next block read or the return
read_iter(n, buf, data, b, s) ==
    IF Len(data) > 0 /\ (n < 0 \/ Len(buf) < n + Len(_boundary))
    THEN LET buf1 == buf \o data
             search_idx == Max(Len(buf1) - Len(data) - (Len(_boundary) - 1), 0)
             bd_idx == Find(buf1, _boundary, search_idx)
         IN IF bd_idx >= 0
            THEN {read_return(n, st.buf, TRUE, st.buffer, st.src)
                  : st \in _strip_boundary(buf1, bd_idx, b, s, TRUE)}
            ELSE {read_await(buf1, o) : o \in _read_next_block(n, buf1, b, s)}
    ELSE {read_return(n, buf \o data, FALSE, b, s)}

\* BoundaryReader.readline: [ret, exc, hit, buffer, src, calls]
BoundaryReader_readline(hit, b, s) ==
    IF hit
    THEN {[ret |-> <<>>, exc |-> "none", hit |-> hit, buffer |-> b, src |-> s, calls |-> 0]}
    ELSE LET line == BufferedReader_readline(b, s)
             line2 == BufferedReader_readline(line.buffer, line.src)
             buf == line.ret \o line2.ret
             bd_idx == Find(buf, _boundary, 0)
         IN IF bd_idx >= 0
            THEN {[ret |-> st.buf, exc |-> st.exc, hit |-> TRUE,
                   buffer |-> st.buffer, src |-> st.src, calls |-> 2]
                  : st \in _strip_boundary(buf, bd_idx, line2.buffer, line2.src, FALSE)}
            ELSE {[ret |-> line.ret, exc |-> "none", hit |-> hit,
                   buffer |-> put(line2.buffer, line2.ret), src |-> line2.src, calls |-> 2]}

----------------------------------------------------------------------------
(* The BoundaryReader under test, over a stream A || "\r\n--" || boundary  *)
(* || T.  A call runs from its start to its first wait on the inner reader *)
(* (pc = "read"), and from one wait to the next or to its return.          *)

\* parts that may precede the marker: plain bytes, whole lines, starts of the marker
PartList ==
    { <<>>, <<"x">>, <<"\r">>, <<"x", "y">>, <<"\r", "\n">>, <<"x", "\n">>,
      <<"x", "y", "z">>, <<"x", "\r", "\n">>, <<"\r", "\n", "-">>,
      <<"x", "\n", "y", "z">> }

\* what follows the marker: nothing, the final and the inter-part trailer, other bytes
Tails ==
    { <<>>, <<"-", "-", "\r", "\n">>, <<"\r", "\n", "x">>, <<"x", "y">>, <<"-", "-", "x">> }

\* values of n passed to BoundaryReader.read / readexactly
BoundaryNs == ((-1)..MaxN) \cup {2 * Len(_boundary)}

RdIdle == [n |-> 0, buf |-> <<>>, data |-> <<>>]

RxIdle == [on |-> FALSE, n |-> 0, readn |-> 0, buf |-> <<>>]

InitBoundary ==
    /\ \E A \in PartList, T \in Tails :
        /\ Len(A) <= MaxPart
        /\ Find(A \o _boundary, _boundary, 0) = Len(A)
        /\ stream0 = [A |-> A, T |-> T, all |-> A \o _boundary \o T]
    /\ src = stream0.all
    /\ buffer = <<>>
    /\ result = NoResult
    /\ hit_boundary = FALSE
    /\ pc = "idle" /\ rd = RdIdle /\ rx = RxIdle
    /\ out = <<>> /\ done = FALSE
    /\ IdleLength /\ IdleHttp /\ res = <<>> /\ msg = <<>> /\ aio = <<>>

\* a BoundaryReader call completes: it returned ret or raised exc
BComplete(op, n, ret, exc, hit, b, s) ==
    /\ result' = [op |-> op, n |-> n, ret |-> ret, exc |-> exc,
                  calls |-> IF b = buffer /\ s = src /\ pc = "idle" THEN 0 ELSE 1,
                  had |-> 0]
    /\ hit_boundary' = hit
    /\ buffer' = b
    /\ src' = s
    /\ pc' = "idle" /\ rd' = RdIdle /\ rx' = RxIdle

\* BoundaryReader.read waits for the inner reader inside its loop
BAwait(n, c, rxv) ==
    /\ pc' = "read"
    /\ rd' = [n |-> n, buf |-> c.buf, data |-> c.data]
    /\ rx' = rxv
    /\ buffer' = c.buffer
    /\ src' = c.src
    /\ UNCHANGED <<hit_boundary, result>>

\* readexactly raising without the data of the reads before the empty one
BReadexactlyLoop_drops_partial(rxv, hit, b, s) ==
    IF rxv.readn < rxv.n
    THEN \E c \in read_start(hit, rxv.n - rxv.readn, b, s) :
            IF c.kind = "return"
            THEN BComplete("readexactly", rxv.n, <<>>, "IncompleteReadError", c.hit, c.buffer, c.src)
            ELSE BAwait(rxv.n - rxv.readn, c, rxv)
    ELSE BComplete("readexactly", rxv.n, rxv.buf, "none", hit, b, s)

\* BoundaryReader.readexactly at its loop test, with locals rxv
BReadexactlyLoop(rxv, hit, b, s) ==
    IF rxv.readn < rxv.n
    THEN \E c \in read_start(hit, rxv.n - rxv.readn, b, s) :
            IF c.kind = "return"
            THEN BComplete("readexactly", rxv.n, rxv.buf, "IncompleteReadError", c.hit, c.buffer, c.src)
            ELSE BAwait(rxv.n - rxv.readn, c, rxv)
    ELSE BComplete("readexactly", rxv.n, rxv.buf, "none", hit, b, s)

\* BoundaryReader.read goes on to c: a wait, or its return to its caller
BReadGoes(n, c) ==
    IF c.kind = "await"
    THEN BAwait(n, c, rx)
    ELSE IF ~rx.on
    THEN BComplete("read", n, c.ret, "none", c.hit, c.buffer, c.src)
    ELSE IF c.ret = <<>>
    THEN BComplete("readexactly", rx.n, rx.buf, "IncompleteReadError", c.hit, c.buffer, c.src)
    ELSE BReadexactlyLoop([rx EXCEPT !.readn = @ + Len(c.ret), !.buf = @ \o c.ret],
                          c.hit, c.buffer, c.src)

\* the bytes a completed call hands to its caller
Returned == IF result'.exc = "none" THEN result'.ret ELSE <<>>

\* BoundaryReader.read(n) is called
BReadCall ==
    /\ pc = "idle"
    /\ \E n \in BoundaryNs : \E c \in read_start(hit_boundary, n, buffer, src) : BReadGoes(n, c)

\* BoundaryReader.read resumes with the block the inner reader delivered
BReadWakes ==
    /\ pc = "read"
    /\ \E c \in read_iter(rd.n, rd.buf, rd.data, buffer, src) : BReadGoes(rd.n, c)

BRead == BReadCall /\ UNCHANGED <<lengthVars, httpVars, res, msg, ghostVars, aio>>

BReadResume == BReadWakes /\ UNCHANGED <<lengthVars, httpVars, res, msg, ghostVars, aio>>

\* BoundaryReader.readline() is called
BReadline ==
    /\ pc = "idle"
    /\ \E o \in BoundaryReader_readline(hit_boundary, buffer, src) :
        BComplete("readline", 0, o.ret, o.exc, o.hit, o.buffer, o.src)
    /\ UNCHANGED <<lengthVars, httpVars, res, msg, ghostVars, aio>>

\* BoundaryReader.readexactly(n) is called
BReadexactly ==
    /\ pc = "idle"
    /\ \E n \in BoundaryNs :
        IF n < 0
        THEN BComplete("readexactly", n, <<>>, "none", hit_boundary, buffer, src)
        ELSE BReadexactlyLoop([on |-> TRUE, n |-> n, readn |-> 0, buf |-> <<>>],
                              hit_boundary, buffer, src)
    /\ UNCHANGED <<lengthVars, httpVars, res, msg, ghostVars, aio>>

\* chunks pushed back through BoundaryReader.put
BoundaryPuts == {<<"x">>, <<"\r", "\n">>}

\* BoundaryReader.put
BPut ==
    /\ pc = "idle"
    /\ Len(buffer) < MaxChunks
    /\ \E x \in BoundaryPuts :
        /\ Len(Join(buffer)) + Len(x) <= MaxPush
        /\ buffer' = put(buffer, x)
        /\ result' = [op |-> "put", n |-> Len(x), ret |-> x, exc |-> "none", calls |-> 1,
                      had |-> 0]
    /\ UNCHANGED <<src, hit_boundary, pc, rd, rx, lengthVars, httpVars, res, msg, ghostVars, aio>>

NextBoundary == BRead \/ BReadResume \/ BReadline \/ BReadexactly \/ BPut

SpecBoundary == InitBoundary /\ [][NextBoundary]_vars


\* the BoundaryReader under test over a stream with the marker, or over one
\* that ends without it
SpecBoundaryAny ==
    /\ \/ InitBoundary
       \/ /\ \E A \in PartList : stream0 = [A |-> A, T |-> <<>>, all |-> A]
          /\ src = stream0.all
          /\ buffer = <<>>
          /\ result = NoResult
          /\ IdleBoundary
          /\ out = <<>> /\ done = FALSE
          /\ IdleLength /\ IdleHttp /\ res = <<>> /\ msg = <<>> /\ aio = <<>>
    /\ [][NextBoundary]_vars

\* the caller collects what its reads return until one returns empty
Collect ==
    IF pc' = "idle"
    THEN out' = out \o Returned /\ done' = Exhausted(result')
    ELSE UNCHANGED <<out, done>>

DrainBRead == ~done /\ BReadCall /\ Collect /\ UNCHANGED <<lengthVars, httpVars, res, msg, stream0, aio>>

DrainBReadResume == BReadWakes /\ Collect /\ UNCHANGED <<lengthVars, httpVars, res, msg, stream0, aio>>

SpecBoundaryDrain == InitBoundary /\ [][DrainBRead \/ DrainBReadResume]_vars

\* T with a leading "--\r\n" or "\r\n" stripped
StripTrailer(T) ==
    IF Slice(T, 0, 4) = <<"-", "-", "\r", "\n">> THEN SliceFrom(T, 4)
    ELSE IF Slice(T, 0, 2) = <<"\r", "\n">> THEN SliceFrom(T, 2)
    ELSE T

\* C1: over a stream A || marker || T, once a read has returned empty, the reads
\* have returned exactly A and the inner reader is left with T less its leading
\* "--\r\n" or "\r\n", whatever the n of each read and however the source
\* delivered the stream.
C1_ReadsYieldPart ==
    done => /\ out = stream0.A
            /\ Logical(buffer, src) = StripTrailer(stream0.T)

\* C2: hit_boundary never goes back to false, and while it is true read(n) and
\* readline() return empty and readexactly(n), n > 0, raises IncompleteReadError,
\* all without touching the inner reader; put() changes none of this.
C2_HitBoundaryIsFinal ==
    [][hit_boundary =>
        /\ hit_boundary'
        /\ pc' = "idle"
        /\ result'.op \in {"read", "readline"} =>
              result'.ret = <<>> /\ result'.exc = "none" /\ UNCHANGED <<buffer, src>>
        /\ (result'.op = "readexactly" /\ result'.n > 0) =>
              result'.exc = "IncompleteReadError" /\ UNCHANGED <<buffer, src>>]_vars

\* after the boundary was hit and bytes were put back, a readexactly has failed
C2_Witness ==
    /\ hit_boundary /\ result.op = "readexactly" /\ result.n > 0
    /\ result.exc = "IncompleteReadError" /\ Len(buffer) = 2 /\ src # <<>>

----------------------------------------------------------------------------
(* Python str helpers used by pyx/http.py *)

Lowers == <<"a", "b", "c", "d", "e", "f", "g", "h", "i", "j", "k", "l", "m", "n", "o", "p", "q", "r", "s", "t", "u", "v", "w", "x", "y", "z">>

Uppers == <<"A", "B", "C", "D", "E", "F", "G", "H", "I", "J", "K", "L", "M", "N", "O", "P", "Q", "R", "S", "T", "U", "V", "W", "X", "Y", "Z">>

Digits == <<"0", "1", "2", "3", "4", "5", "6", "7", "8", "9">>

\* the characters str.strip() removes, among the bytes of the model
Whitespace == {" ", "\t", "\r", "\n"}

\* a byte that is not valid UTF-8
NonUtf8 == {"0xFF"}

\* the index of c in the sequence t, 0 when absent
IndexIn(t, c) == IF \E i \in DOMAIN t : t[i] = c THEN CHOOSE i \in DOMAIN t : t[i] = c ELSE 0

\* str.upper()
upper(s) == [i \in 1..Len(s) |-> IF IndexIn(Lowers, s[i]) > 0 THEN Uppers[IndexIn(Lowers, s[i])] ELSE s[i]]

\* nothing is stripped
strip_nothing(s) == s

\* str.strip()
strip(s) ==
    LET keep == {i \in 1..Len(s) : s[i] \notin Whitespace}
    IN IF keep = {} THEN <<>>
       ELSE SubSeq(s, CHOOSE i \in keep : \A j \in keep : i <= j,
                      CHOOSE i \in keep : \A j \in keep : i >= j)

\* str.split(sep) for a one-character separator
RECURSIVE split(_, _)
split(s, sep) ==
    LET i == Find(s, <<sep>>, 0)
    IN IF i < 0 THEN <<s>> ELSE <<Slice(s, 0, i)>> \o split(SliceFrom(s, i + 1), sep)

\* bytes.decode(): UnicodeDecodeError on a byte that is not UTF-8
decode(b) ==
    IF \E i \in 1..Len(b) : b[i] \in NonUtf8
    THEN [exc |-> "UnicodeDecodeError", str |-> <<>>]
    ELSE [exc |-> "none", str |-> b]

\* the value of a string of decimal digits
RECURSIVE DigitsValue(_)
DigitsValue(d) ==
    IF d = <<>> THEN 0
    ELSE 10 * DigitsValue(SubSeq(d, 1, Len(d) - 1)) + (IndexIn(Digits, d[Len(d)]) - 1)

\* int(s, 10): surrounding whitespace, one sign, digits with single
\* underscores between them; ValueError for anything else
int(s) ==
    LET t == strip(s)
        signed == t # <<>> /\ t[1] \in {"+", "-"}
        body == IF signed THEN Tail(t) ELSE t
        isDigit(c) == IndexIn(Digits, c) > 0
        ok == /\ body # <<>>
              /\ isDigit(body[1]) /\ isDigit(body[Len(body)])
              /\ \A i \in 1..Len(body) : isDigit(body[i]) \/ body[i] = "_"
              /\ \A i \in 1..(Len(body) - 1) : ~(body[i] = "_" /\ body[i + 1] = "_")
        val == DigitsValue(SelectSeq(body, isDigit))
    IN IF ~ok THEN [exc |-> "ValueError", val |-> 0]
       ELSE [exc |-> "none", val |-> IF signed /\ t[1] = "-" THEN 0 - val ELSE val]

\* tuple comparison a < b for pairs
tuple_lt(a, b) == a[1] < b[1] \/ (a[1] = b[1] /\ a[2] < b[2])

----------------------------------------------------------------------------
(* pyx/http.py: parsing a request *)

CRLF == <<"\r", "\n">>

\* None, or the value v, as a sequence of at most one element
None == <<>>

\* an HttpRequest before parse() fills it in
NoReq ==
    [method |-> <<>>, path |-> <<>>, query |-> None, protocol |-> <<>>, version |-> <<1, 1>>,
     headers |-> <<>>, responded |-> FALSE]

Raise(r, e) == [exc |-> e, req |-> r]

\* a request line of three tokens or more is taken
wrong_comps_short(comps) == Len(comps) < 3

\* len(comps) != 3
wrong_comps(comps) == Len(comps) # 3

\* HttpRequest._parse_req_line: the request with its fields set, or the
\* exception raised; fields assigned before the raise stay assigned
_parse_req_line(r, req_line) ==
    LET d == decode(req_line)
        line == strip(d.str)
        comps == split(line, " ")
    IN IF d.exc # "none" THEN Raise(r, d.exc)
       ELSE IF Len(line) = 0 THEN Raise(r, "BadHttpRequestError")
       ELSE IF wrong_comps(comps) THEN Raise(r, "BadHttpRequestError")
       ELSE
        LET qmark_idx == Find(comps[2], <<"?">>, 0)
            r1 == [r EXCEPT !.method = upper(comps[1]),
                            !.path = IF qmark_idx < 0 THEN comps[2] ELSE Slice(comps[2], 0, qmark_idx),
                            !.query = IF qmark_idx < 0 THEN None
                                      ELSE <<SliceFrom(comps[2], qmark_idx + 1)>>,
                            !.version = <<1, 1>>]
            vmark_idx == Find(comps[3], <<"/">>, 0)
        IN IF vmark_idx < 0 THEN Raise(r1, "BadHttpRequestError")
           ELSE
            LET r2 == [r1 EXCEPT !.protocol = upper(Slice(comps[3], 0, vmark_idx))]
                vstr == SliceFrom(comps[3], vmark_idx + 1)
                vpoint_idx == Find(vstr, <<".">>, 0)
                major == int(IF vpoint_idx < 0 THEN vstr ELSE Slice(vstr, 0, vpoint_idx))
                minor == IF vpoint_idx < 0 THEN [exc |-> "none", val |-> 0]
                         ELSE int(SliceFrom(vstr, vpoint_idx + 1))
            IN IF major.exc # "none" THEN Raise(r2, major.exc)
               ELSE IF minor.exc # "none" THEN Raise(r2, minor.exc)
               ELSE [exc |-> "none", req |-> [r2 EXCEPT !.version = <<major.val, minor.val>>]]

\* a line that starts with its ':' is taken as a header
parse_http_header_any_colon(header_line) ==
    LET d == decode(header_line)
        line == strip(d.str)
        col_idx == Find(line, <<":">>, 0)
    IN IF d.exc # "none" THEN [exc |-> d.exc, key |-> <<>>, value |-> <<>>]
       ELSE IF col_idx < 0 THEN [exc |-> "BadHttpHeaderError", key |-> <<>>, value |-> <<>>]
       ELSE [exc |-> "none", key |-> strip(Slice(line, 0, col_idx)),
             value |-> strip(SliceFrom(line, col_idx + 1))]

\* parse_http_header
parse_http_header(header_line) ==
    LET d == decode(header_line)
        line == strip(d.str)
        col_idx == Find(line, <<":">>, 0)
    IN IF d.exc # "none" THEN [exc |-> d.exc, key |-> <<>>, value |-> <<>>]
       ELSE IF col_idx < 1 THEN [exc |-> "BadHttpHeaderError", key |-> <<>>, value |-> <<>>]
       ELSE [exc |-> "none", key |-> strip(Slice(line, 0, col_idx)),
             value |-> strip(SliceFrom(line, col_idx + 1))]

\* conn.reader.readline(): the k-th line of the input, b'' at EOF
readline_at(lines, k) == IF k <= Len(lines) THEN lines[k] ELSE <<>>

\* the header loop of HttpRequest.parse from the k-th line on
RECURSIVE parse_headers(_, _, _)
parse_headers(r, lines, k) ==
    LET header_line == readline_at(lines, k)
        h == parse_http_header(header_line)
    IN IF ~(Len(header_line) > 0 /\ header_line # CRLF) THEN [exc |-> "none", req |-> r]
       ELSE IF h.exc = "none"
            THEN parse_headers([r EXCEPT !.headers = Append(@, [key |-> h.key, value |-> h.value])],
                               lines, k + 1)
       ELSE IF h.exc = "BadHttpHeaderError" THEN parse_headers(r, lines, k + 1)
       ELSE Raise(r, h.exc)

\* HttpRequest.parse(conn) reading the lines of input i; i.reset: the
\* reader raises ConnectionResetError
HttpRequest_parse(i) ==
    LET p == _parse_req_line(NoReq, readline_at(i.lines, 1))
    IN IF i.reset THEN Raise(NoReq, "ConnectionResetError")
       ELSE IF p.exc # "none" THEN p
       ELSE parse_headers(p.req, i.lines, 2)

\* get_first_kv: None, or the value of the first header whose key matches
\* the key without regard to case
get_first_kv(kv_list, key) ==
    LET upper_key == upper(key)
        hits == {i \in 1..Len(kv_list) : upper(kv_list[i].key) = upper_key}
    IN IF hits = {} THEN None
       ELSE <<kv_list[CHOOSE i \in hits : \A j \in hits : i <= j].value>>

----------------------------------------------------------------------------
(* pyx/http.py: connections, responses and error pages *)

\* the status codes status_messages has a message for
status_messages == {200, 303, 400, 404, 500, 501}

\* HttpConnection.__init__; written: what the writer was handed while the
\* request being served was served
NewConn == [closed |-> FALSE, writer_closed |-> FALSE, written |-> <<>>]

\* HttpConnection.close
close(k) == [k EXCEPT !.writer_closed = TRUE, !.closed = TRUE]

\* writer.write(data) and then writer.drain(), which raises when the peer is gone
write_drain(k, data, drained) ==
    [exc |-> IF drained THEN "none" ELSE "ConnectionResetError",
     conn |-> [k EXCEPT !.written = Append(@, data)]]

\* HttpResponse.send of a response to request r with status code
send(k, r, code, drained) ==
    LET r1 == [r EXCEPT !.responded = TRUE]
        w == write_drain(k, [part |-> "header", code |-> code], drained)
    IN IF code \notin status_messages THEN [exc |-> "KeyError", conn |-> k, req |-> r1]
       ELSE [exc |-> w.exc, conn |-> w.conn, req |-> r1]

\* HttpResponse.send_body
send_body(k, r, code, drained) ==
    LET w == write_drain(k, [part |-> "body", code |-> code], drained)
    IN [exc |-> w.exc, conn |-> w.conn, req |-> r]

\* DefaultHttpErrorHandler.__call__(err, req): its possible outcomes
DefaultHttpErrorHandler(k, r, code) ==
    IF code \notin status_messages THEN {[exc |-> "KeyError", conn |-> k, req |-> r]}
    ELSE {LET s == send(k, r, code, d1)
          IN IF s.exc # "none" THEN s ELSE send_body(s.conn, s.req, code, d2) :
          d1 \in BOOLEAN, d2 \in BOOLEAN}

\* the exception of the error handler is let through and close() is not reached
_generate_500_and_stop_uncaught(k, r) ==
    IF ~r.responded
    THEN {[conn |-> IF o.exc = "none" THEN close(o.conn) ELSE o.conn, req |-> o.req,
           invoked |-> <<500>>, eh |-> o.exc, raised |-> o.exc] :
          o \in DefaultHttpErrorHandler(k, r, 500)}
    ELSE {[conn |-> close(k), req |-> r, invoked |-> <<>>, eh |-> "none", raised |-> "none"]}

\* HttpRequestCB._generate_500_and_stop: the connection and the request it
\* leaves, the codes the error handler was invoked with, the exception raised
_generate_500_and_stop(k, r) ==
    IF ~r.responded
    THEN {[conn |-> close(o.conn), req |-> o.req, invoked |-> <<500>>, eh |-> o.exc,
           raised |-> "none"] : o \in DefaultHttpErrorHandler(k, r, 500)}
    ELSE {[conn |-> close(k), req |-> r, invoked |-> <<>>, eh |-> "none", raised |-> "none"]}

\* the error handler is invoked whether or not the request is responded
_handle_http_error_always(k, r, code) ==
    {[conn |-> IF o.exc = "none" THEN o.conn ELSE close(o.conn), req |-> o.req,
      invoked |-> <<code>>, eh |-> o.exc, raised |-> "none"] :
     o \in DefaultHttpErrorHandler(k, r, code)}

\* the except branch of _handle_http_error logging without closing
_handle_http_error_logs_only(k, r, code) ==
    IF ~r.responded
    THEN {[conn |-> o.conn, req |-> o.req,
           invoked |-> <<code>>, eh |-> o.exc, raised |-> "none"] :
          o \in DefaultHttpErrorHandler(k, r, code)}
    ELSE {[conn |-> k, req |-> r, invoked |-> <<>>, eh |-> "none", raised |-> "none"]}

\* HttpRequestCB._handle_http_error for HttpError(code)
_handle_http_error(k, r, code) ==
    IF ~r.responded
    THEN {[conn |-> IF o.exc = "none" THEN o.conn ELSE close(o.conn), req |-> o.req,
           invoked |-> <<code>>, eh |-> o.exc, raised |-> "none"] :
          o \in DefaultHttpErrorHandler(k, r, code)}
    ELSE {[conn |-> k, req |-> r, invoked |-> <<>>, eh |-> "none", raised |-> "none"]}

\* the comparison of the Connection header with 'keep-alive' takes case into account
keep_alive_exact(r) ==
    LET conn_header == get_first_kv(r.headers, <<"C", "o", "n", "n", "e", "c", "t", "i", "o", "n">>)
    IN /\ ~tuple_lt(r.version, <<1, 1>>)
       /\ conn_header = None \/ conn_header[1] = <<"k", "e", "e", "p", "-", "a", "l", "i", "v", "e">>

\* the keep-alive decision of HttpConnectionCB.__call__: TRUE to go on
keep_alive(r) ==
    \E conn_header \in {get_first_kv(r.headers, <<"C", "o", "n", "n", "e", "c", "t", "i", "o", "n">>)} :
       IF tuple_lt(r.version, <<1, 1>>) THEN FALSE
       ELSE conn_header = None \/ upper(conn_header[1]) = <<"K", "E", "E", "P", "-", "A", "L", "I", "V", "E">>

\* the callback was started and is not waited for
awaited_never(call) == TRUE

\* yield from self._request_cb(req): the loop goes on when the call has ended
awaited(call) == call.pc = "done"

----------------------------------------------------------------------------
(* pyx/http.py: the connection loop and the request callback *)

readerVars == <<src, buffer, result, lengthVars, boundaryVars, ghostVars>>

IdleReaders ==
    /\ src = <<>> /\ buffer = <<>> /\ result = NoResult
    /\ IdleLength /\ IdleBoundary /\ IdleGhost

\* what a client sends for one request: the lines the reader yields before
\* EOF; reset: the reader raises ConnectionResetError instead
Input(lines) == [lines |-> lines, reset |-> FALSE]

GoodInputs ==
    { Input(<<<<"G", "E", "T", " ", "/", " ", "H", "T", "T", "P", "/", "1", ".", "1", "\r", "\n">>, CRLF>>),
      Input(<<<<"G", "E", "T", " ", "/", " ", "H", "T", "T", "P", "/", "1", ".", "1", "\r", "\n">>, <<"C", "o", "n", "n", "e", "c", "t", "i", "o", "n", ":", " ", "k", "e", "e", "p", "-", "a", "l", "i", "v", "e", "\r", "\n">>, CRLF>>),
      Input(<<<<"G", "E", "T", " ", "/", " ", "H", "T", "T", "P", "/", "1", ".", "1", "\r", "\n">>, <<"c", "o", "n", "n", "e", "c", "t", "i", "o", "n", ":", " ", "K", "e", "e", "p", "-", "A", "l", "i", "v", "e", "\r", "\n">>, CRLF>>),
      Input(<<<<"G", "E", "T", " ", "/", " ", "H", "T", "T", "P", "/", "1", ".", "1", "\r", "\n">>, <<"C", "o", "n", "n", "e", "c", "t", "i", "o", "n", ":", " ", "c", "l", "o", "s", "e", "\r", "\n">>, CRLF>>),
      Input(<<<<"G", "E", "T", " ", "/", " ", "H", "T", "T", "P", "/", "1", ".", "1", "\r", "\n">>, <<"H", "o", "s", "t", ":", " ", "h", "\r", "\n">>, <<"C", "O", "N", "N", "E", "C", "T", "I", "O", "N", ":", "c", "l", "o", "s", "e", "\r", "\n">>,
              <<"C", "o", "n", "n", "e", "c", "t", "i", "o", "n", ":", " ", "k", "e", "e", "p", "-", "a", "l", "i", "v", "e", "\r", "\n">>, CRLF>>),
      Input(<<<<"G", "E", "T", " ", "/", " ", "H", "T", "T", "P", "/", "1", ".", "1", "\r", "\n">>, <<"n", "o", "c", "o", "l", "o", "n", "\r", "\n">>, <<"C", "o", "n", "n", "e", "c", "t", "i", "o", "n", " ", ":", " ", "K", "E", "E", "P", "-", "A", "L", "I", "V", "E", " ", "\r", "\n">>>>),
      Input(<<<<"G", "E", "T", " ", "/", " ", "H", "T", "T", "P", "/", "1", ".", "0", "\r", "\n">>, <<"C", "o", "n", "n", "e", "c", "t", "i", "o", "n", ":", " ", "k", "e", "e", "p", "-", "a", "l", "i", "v", "e", "\r", "\n">>, CRLF>>),
      Input(<<<<"G", "E", "T", " ", "/", " ", "H", "T", "T", "P", "/", "0", ".", "9", "\r", "\n">>, CRLF>>),
      Input(<<<<"g", "e", "t", " ", "/", "a", "?", "b", " ", "H", "T", "T", "P", "/", "2", "\r", "\n">>, <<"C", "o", "n", "n", "e", "c", "t", "i", "o", "n", ":", " ", "U", "p", "g", "r", "a", "d", "e", "\r", "\n">>, CRLF>>) }

BadInputs ==
    { Input(<<>>),
      Input(<<CRLF>>),
      Input(<<<<"G", "E", "T", " ", "/", "\r", "\n">>, CRLF>>),
      Input(<<<<"G", "E", "T", " ", "/", " ", "H", "T", "T", "P", "/", "1", ".", "1", " ", "x", "\r", "\n">>, CRLF>>),
      Input(<<<<"G", "E", "T", " ", "/", " ", "H", "T", "T", "P", "1", ".", "1", "\r", "\n">>, CRLF>>),
      Input(<<<<"G", "E", "T", " ", "/", " ", "H", "T", "T", "P", "/", "1", ".", "x", "\r", "\n">>, CRLF>>),
      Input(<<<<"G", "E", "T", " ", "/", "0xFF", " ", "H", "T", "T", "P", "/", "1", ".", "1", "\r", "\n">>, CRLF>>),
      Input(<<<<"G", "E", "T", " ", "/", " ", "H", "T", "T", "P", "/", "1", ".", "1", "\r", "\n">>, <<"H", "o", "s", "t", ":", " ", "0xFF", "\r", "\n">>, CRLF>>),
      [lines |-> <<>>, reset |-> TRUE] }

Inputs == GoodInputs \cup BadInputs

\* the requests of clients served side by side
PairInputs ==
    { Input(<<<<"G", "E", "T", " ", "/", " ", "H", "T", "T", "P", "/", "1", ".", "1", "\r", "\n">>, CRLF>>),
      Input(<<>>) }

\* the status codes a handler responds with; 204 has no status message
HandlerCodes == {200, 204}

NoErr == [kind |-> "none", code |-> 0]

\* what the root factory, the traversal or a handler raises; 403 has no
\* status message
Raisable ==
    {[kind |-> "HttpError", code |-> 404], [kind |-> "HttpError", code |-> 403],
     [kind |-> "other", code |-> 0]}

\* no HttpRequestCB call: pc is the position of the call, err the exception
\* being handled, active the calls in progress on the connection, invoked
\* the codes the error handler was invoked with, eh what the error handler
\* raised, raised what the call raised
NoCall ==
    [pc |-> "none", err |-> NoErr, active |-> 0, invoked |-> <<>>, eh |-> "none",
     raised |-> "none"]

\* HttpConnectionCB.__call__ up to the first request, for each of the
\* connections the server has accepted
InitHttpOver(conns) ==
    /\ conn = [c \in conns |-> NewConn]
    /\ task = [c \in conns |-> [pc |-> "parse", input |-> Input(<<>>), again |-> FALSE]]
    /\ req = [c \in conns |-> NoReq]
    /\ cb = [c \in conns |-> NoCall]
    /\ IdleReaders /\ res = <<>> /\ msg = <<>> /\ aio = <<>>

\* one connection
InitHttp == InitHttpOver({"c1"})

\* two connections served side by side
InitHttpPair == InitHttpOver({"c1", "c2"})

\* req = yield from HttpRequest.parse(conn), then either the except branch
\* or the start of the request callback
ParseOf(c, inputs) ==
    /\ task[c].pc = "parse"
    /\ \E i \in inputs :
        LET p == HttpRequest_parse(i)
        IN IF p.exc # "none"
           THEN /\ conn' = [conn EXCEPT ![c] = close(@)]
                /\ task' = [task EXCEPT ![c] = [@ EXCEPT !.pc = "exit", !.input = i]]
                /\ UNCHANGED <<req, cb>>
           ELSE /\ conn' = [conn EXCEPT ![c] = [@ EXCEPT !.written = <<>>]]
                /\ task' = [task EXCEPT ![c] = [@ EXCEPT !.pc = "callback", !.input = i]]
                /\ req' = [req EXCEPT ![c] = p.req]
                /\ cb' = [cb EXCEPT ![c] = [NoCall EXCEPT !.pc = "traverse",
                                                          !.active = cb[c].active + 1]]
    /\ UNCHANGED <<readerVars, res, msg, aio>>

\* HttpRequestCB.__call__: the root factory and the traversal
Traverse(c) ==
    /\ cb[c].pc = "traverse"
    /\ \E e \in {NoErr} \cup Raisable :
        cb' = [cb EXCEPT ![c] = [@ EXCEPT !.pc = IF e = NoErr THEN "handler" ELSE "error",
                                          !.err = e]]
    /\ UNCHANGED <<conn, task, req, readerVars, res, msg, aio>>

\* the call goes on after a step of the handler that ended with exc
AfterHandler(call, exc) ==
    IF exc = "none" THEN call
    ELSE [call EXCEPT !.pc = "error", !.err = [kind |-> "other", code |-> 0]]

\* the handler sends the response header
HandlerSend(c) ==
    /\ cb[c].pc = "handler"
    /\ ~req[c].responded
    /\ \E code \in HandlerCodes, drained \in BOOLEAN :
        LET o == send(conn[c], req[c], code, drained)
        IN /\ conn' = [conn EXCEPT ![c] = o.conn]
           /\ req' = [req EXCEPT ![c] = o.req]
           /\ cb' = [cb EXCEPT ![c] = AfterHandler(@, o.exc)]
    /\ UNCHANGED <<task, readerVars, res, msg, aio>>

\* the handler sends the response body
HandlerSendBody(c) ==
    /\ cb[c].pc = "handler"
    /\ req[c].responded
    /\ Len(conn[c].written) = 1
    /\ \E drained \in BOOLEAN :
        LET o == send_body(conn[c], req[c], conn[c].written[1].code, drained)
        IN /\ conn' = [conn EXCEPT ![c] = o.conn]
           /\ cb' = [cb EXCEPT ![c] = AfterHandler(@, o.exc)]
    /\ UNCHANGED <<task, req, readerVars, res, msg, aio>>

\* the handler returns
HandlerReturn(c) ==
    /\ cb[c].pc = "handler"
    /\ cb' = [cb EXCEPT ![c] = [@ EXCEPT !.pc = "done", !.active = @ - 1]]
    /\ UNCHANGED <<conn, task, req, readerVars, res, msg, aio>>

\* the handler raises
HandlerRaise(c) ==
    /\ cb[c].pc = "handler"
    /\ \E e \in Raisable : cb' = [cb EXCEPT ![c] = [@ EXCEPT !.pc = "error", !.err = e]]
    /\ UNCHANGED <<conn, task, req, readerVars, res, msg, aio>>

\* the except branches of HttpRequestCB.__call__, to the end of the call
HandleError(c) ==
    /\ cb[c].pc = "error"
    /\ \E o \in (IF cb[c].err.kind = "HttpError"
                 THEN _handle_http_error(conn[c], req[c], cb[c].err.code)
                 ELSE _generate_500_and_stop(conn[c], req[c])) :
        /\ conn' = [conn EXCEPT ![c] = o.conn]
        /\ req' = [req EXCEPT ![c] = o.req]
        /\ cb' = [cb EXCEPT ![c] = [@ EXCEPT !.pc = "done", !.active = @ - 1,
                                             !.invoked = @ \o o.invoked,
                                             !.eh = o.eh,
                                             !.raised = o.raised]]
    /\ UNCHANGED <<task, readerVars, res, msg, aio>>

\* HttpConnectionCB.__call__ after the request callback: the keep-alive
\* decision and the test of the while loop; an exception of the callback
\* ends the task
Decide(c) ==
    /\ task[c].pc = "callback"
    /\ awaited(cb[c])
    /\ LET k == IF keep_alive(req[c]) THEN conn[c] ELSE close(conn[c])
       IN IF cb[c].raised # "none"
          THEN /\ task' = [task EXCEPT ![c] = [@ EXCEPT !.pc = "raised"]]
               /\ UNCHANGED conn
          ELSE /\ conn' = [conn EXCEPT ![c] = k]
               /\ task' = [task EXCEPT ![c] = [@ EXCEPT !.pc = IF k.closed THEN "exit" ELSE "parse",
                                                        !.again = TRUE]]
    /\ UNCHANGED <<req, cb, readerVars, res, msg, aio>>

NextHttp ==
    \E c \in {"c1"} :
        \/ ParseOf(c, Inputs)
        \/ Traverse(c)
        \/ HandlerSend(c)
        \/ HandlerSendBody(c)
        \/ HandlerReturn(c)
        \/ HandlerRaise(c)
        \/ HandleError(c)
        \/ Decide(c)

SpecHttp == InitHttp /\ [][NextHttp]_vars

\* yield from self._request_cb(req) with a request callback that lets an
\* exception out; HttpRequestCB itself never does
RequestCbRaises(c) ==
    /\ task[c].pc = "callback"
    /\ cb[c].pc = "traverse"
    /\ cb' = [cb EXCEPT ![c] = [@ EXCEPT !.pc = "done", !.active = @ - 1,
                                         !.raised = "Exception"]]
    /\ UNCHANGED <<conn, task, req, readerVars, res, msg, aio>>

\* the connection loop with any request callback
SpecHttpAnyCb == InitHttp /\ [][NextHttp \/ RequestCbRaises("c1")]_vars

\* most requests a peer sends before it disconnects
MaxRequests == 2

\* the connection loop of one connection whose peer sends the requests of
\* src, one after the other, and then disconnects: at the end of src every
\* read of the reader returns b''; each request of src is held with what
\* HttpRequest.parse makes of it when the loop comes to read it
InitHttpStream ==
    /\ conn = [c \in {"c1"} |-> NewConn]
    /\ task = [c \in {"c1"} |-> [pc |-> "parse", input |-> Input(<<>>), again |-> FALSE]]
    /\ req = [c \in {"c1"} |-> NoReq]
    /\ cb = [c \in {"c1"} |-> NoCall]
    /\ src \in SeqsUpTo({[input |-> i, parse |-> HttpRequest_parse(i)] :
                              i \in GoodInputs \cup {Input(<<CRLF>>)}}, MaxRequests)
    /\ buffer = <<>> /\ result = NoResult
    /\ IdleLength /\ IdleBoundary /\ IdleGhost
    /\ res = <<>> /\ msg = <<>> /\ aio = <<>>

\* a connection loop that tries again after a parse that failed
ParseStream_retries(c) ==
    /\ task[c].pc = "parse"
    /\ LET i == IF src = <<>> THEN Input(<<>>) ELSE Head(src).input
           p == IF src = <<>> THEN HttpRequest_parse(Input(<<>>)) ELSE Head(src).parse
       IN IF p.exc # "none"
          THEN /\ task' = [task EXCEPT ![c] = [@ EXCEPT !.input = i]]
               /\ UNCHANGED <<conn, req, cb>>
          ELSE /\ conn' = [conn EXCEPT ![c] = [@ EXCEPT !.written = <<>>]]
               /\ task' = [task EXCEPT ![c] = [@ EXCEPT !.pc = "callback", !.input = i]]
               /\ req' = [req EXCEPT ![c] = p.req]
               /\ cb' = [cb EXCEPT ![c] = [NoCall EXCEPT !.pc = "traverse",
                                                         !.active = cb[c].active + 1]]
    /\ src' = IF src = <<>> THEN src ELSE Tail(src)
    /\ UNCHANGED <<buffer, result, lengthVars, boundaryVars, ghostVars, res, msg, aio>>

\* req = yield from HttpRequest.parse(conn) on the next request of src, or
\* on the end of the stream, then either the except branch or the start of
\* the request callback
ParseStream(c) ==
    /\ task[c].pc = "parse"
    /\ LET i == IF src = <<>> THEN Input(<<>>) ELSE Head(src).input
           p == IF src = <<>> THEN HttpRequest_parse(Input(<<>>)) ELSE Head(src).parse
       IN IF p.exc # "none"
          THEN /\ conn' = [conn EXCEPT ![c] = close(@)]
               /\ task' = [task EXCEPT ![c] = [@ EXCEPT !.pc = "exit", !.input = i]]
               /\ UNCHANGED <<req, cb>>
          ELSE /\ conn' = [conn EXCEPT ![c] = [@ EXCEPT !.written = <<>>]]
               /\ task' = [task EXCEPT ![c] = [@ EXCEPT !.pc = "callback", !.input = i]]
               /\ req' = [req EXCEPT ![c] = p.req]
               /\ cb' = [cb EXCEPT ![c] = [NoCall EXCEPT !.pc = "traverse",
                                                         !.active = cb[c].active + 1]]
    /\ src' = IF src = <<>> THEN src ELSE Tail(src)
    /\ UNCHANGED <<buffer, result, lengthVars, boundaryVars, ghostVars, res, msg, aio>>

\* the connection loop in a task that the event loop keeps running
SpecHttpStream ==
    /\ InitHttpStream
    /\ [][ParseStream("c1") \/ Traverse("c1") \/ HandlerSend("c1") \/ HandlerSendBody("c1")
             \/ HandlerReturn("c1") \/ HandlerRaise("c1") \/ HandleError("c1") \/ Decide("c1")]_vars
    /\ WF_vars(ParseStream("c1") \/ Traverse("c1") \/ HandlerSend("c1") \/ HandlerSendBody("c1")
                  \/ HandlerReturn("c1") \/ HandlerRaise("c1") \/ HandleError("c1") \/ Decide("c1"))

NextHttpPair ==
    \E c \in {"c1", "c2"} :
        \/ ParseOf(c, PairInputs)
        \/ Traverse(c)
        \/ HandlerSend(c)
        \/ HandlerSendBody(c)
        \/ HandlerReturn(c)
        \/ HandlerRaise(c)
        \/ HandleError(c)
        \/ Decide(c)

SpecHttpPair == InitHttpPair /\ [][NextHttpPair]_vars

----------------------------------------------------------------------------
(* Properties of the connection loop and the request callback *)

(* C7: when the request callback has completed and the connection is still
   open, the loop closes the connection if the request's version is lower
   than (1,1), whatever its headers; otherwise it goes on to parse a further
   request exactly when the first header named Connection (in any case) is
   absent or is keep-alive (in any case), and closes the connection for any
   other value. *)
C7_KeepAliveDecision ==
    [][\A c \in DOMAIN conn :
        (task[c].pc = "callback" /\ task'[c].pc # "callback" /\ ~conn[c].closed) =>
            LET r == req[c]
                SameLetter(x, y) ==
                    x = y \/ \E k \in DOMAIN Lowers : {x, y} = {Lowers[k], Uppers[k]}
                SameNoCase(a, b) ==
                    Len(a) = Len(b) /\ \A i \in 1..Len(a) : SameLetter(a[i], b[i])
                named == {i \in 1..Len(r.headers) :
                            SameNoCase(r.headers[i].key, <<"C", "o", "n", "n", "e", "c", "t", "i", "o", "n">>)}
                first == CHOOSE i \in named : \A j \in named : i <= j
                lower == r.version[1] < 1 \/ (r.version[1] = 1 /\ r.version[2] < 1)
                goes_on == task'[c].pc = "parse" /\ ~conn'[c].closed
                closes == task'[c].pc = "exit" /\ conn'[c].closed /\ conn'[c].writer_closed
            IN /\ goes_on \/ closes
               /\ lower => closes
               /\ ~lower => (goes_on <=>
                                \/ named = {}
                                \/ SameNoCase(r.headers[first].value, <<"k", "e", "e", "p", "-", "a", "l", "i", "v", "e">>))]_vars

\* the loop is back at parse after a request whose Connection header was
\* written connection: Keep-Alive
C7_Witness ==
    \E c \in DOMAIN conn :
        /\ task[c].pc = "parse" /\ task[c].again /\ ~conn[c].closed
        /\ req[c].version = <<1, 1>>
        /\ Len(req[c].headers) = 1
        /\ req[c].headers[1] = [key |-> <<"c", "o", "n", "n", "e", "c", "t", "i", "o", "n">>, value |-> <<"K", "e", "e", "p", "-", "A", "l", "i", "v", "e">>]

(* C8: when parsing a request fails (an empty or blank request line, a
   request line that is not three space-separated tokens, a third token
   without '/', or any other exception), the loop closes the connection and
   exits; the request callback is not invoked for that request and nothing
   is written to the writer. *)
C8_ParseFailureCloses ==
    [][\A c \in DOMAIN conn :
        (task[c].pc = "parse" /\ task'[c].pc # "parse") =>
            LET i == task'[c].input
                line == IF i.lines = <<>> THEN <<>> ELSE i.lines[1]
                inked == {k \in 1..Len(line) : line[k] \notin {" ", "\t", "\r", "\n"}}
                lo == CHOOSE k \in inked : \A j \in inked : k <= j
                hi == CHOOSE k \in inked : \A j \in inked : k >= j
                spaces == {k \in lo..hi : line[k] = " "}
                last == CHOOSE k \in spaces : \A j \in spaces : k >= j
                blank == inked = {}
                listed == \/ blank
                          \/ Cardinality(spaces) # 2
                          \/ ~\E k \in (last + 1)..hi : line[k] = "/"
                undecodable == \E k \in 1..Len(line) : line[k] \in NonUtf8
                failed == /\ task'[c].pc = "exit"
                          /\ conn'[c].closed /\ conn'[c].writer_closed
                          /\ conn'[c].written = conn[c].written
                          /\ cb'[c] = cb[c]
                          /\ req'[c] = req[c]
                started == /\ task'[c].pc = "callback"
                           /\ cb'[c].pc = "traverse"
                           /\ ~conn'[c].closed
            IN /\ failed \/ started
               /\ (i.reset \/ undecodable \/ listed) => failed]_vars

\* the client went away after a request that was served and kept the
\* connection alive
C8_Witness ==
    \E c \in DOMAIN conn :
        /\ task[c].pc = "exit" /\ task[c].again
        /\ task[c].input = Input(<<>>)
        /\ cb[c].pc = "done" /\ cb[c].active = 0
        /\ Len(conn[c].written) = 2
        /\ conn[c].closed

(* C9: on one connection the loop is not reading or parsing a request while
   a request callback of that connection is in progress, error page
   included, and at most one request callback is in progress per
   connection, whatever the other connections' tasks are doing. *)
C9_Serialized ==
    \A c \in DOMAIN conn :
        /\ cb[c].active <= 1
        /\ task[c].pc = "parse" => cb[c].active = 0 /\ cb[c].pc \in {"none", "done"}
        /\ cb[c].pc \in {"traverse", "handler", "error"} =>
              cb[c].active = 1 /\ task[c].pc = "callback"

\* a connection is serving its second request while the callback of the
\* other connection is about to send an error page
C9_Witness ==
    /\ DOMAIN conn = {"c1", "c2"}
    /\ task["c1"].again /\ cb["c1"].pc = "handler" /\ conn["c1"].written # <<>>
    /\ cb["c2"].pc = "error" /\ ~req["c2"].responded

(* C10: when the root factory, the traversal or the handler raises an
   exception that is not an HttpError, the request callback invokes the
   error handler with code 500 if and only if the request has not been
   responded to, closes the connection in every case and returns without
   raising; the loop then exits without parsing a further request, whatever
   the request said about keep-alive. *)
C10_OtherExceptionStops ==
    [][\A c \in DOMAIN conn :
        /\ (cb[c].pc = "error" /\ cb[c].err.kind = "other" /\ cb'[c] # cb[c]) =>
              /\ cb'[c].pc = "done" /\ cb'[c].raised = "none"
              /\ conn'[c].closed /\ conn'[c].writer_closed
              /\ cb'[c].invoked = IF req[c].responded THEN cb[c].invoked
                                  ELSE Append(cb[c].invoked, 500)
        /\ (task[c].pc = "callback" /\ cb[c].pc = "done" /\ cb[c].err.kind = "other"
              /\ task'[c] # task[c]) =>
              task'[c].pc = "exit" /\ conn'[c].closed]_vars

\* a handler responded and then raised on a request that asked to keep the
\* connection alive: no error page, the connection is closed and the loop over
C10_Witness ==
    \E c \in DOMAIN conn :
        /\ task[c].pc = "exit"
        /\ cb[c].pc = "done" /\ cb[c].err.kind = "other" /\ cb[c].invoked = <<>>
        /\ req[c].responded
        /\ req[c].version = <<1, 1>> /\ req[c].headers = <<>>
        /\ conn[c].closed

----------------------------------------------------------------------------
(* Properties of the error handling of the request callback *)

(* C11: when the root factory, the traversal or the handler raises
   HttpError(code), the request callback invokes the error handler with that
   code exactly once if the request is not responded and never if it is;
   when the root factory or the traversal fails the handler is not invoked;
   and when the error handler succeeds the callback leaves the connection
   open, so that the loop's keep-alive decision applies. *)
C11_HttpErrorHandledOnce ==
    [][\A c \in DOMAIN conn :
        /\ (cb[c].pc = "traverse" /\ cb'[c] # cb[c]) =>
              cb'[c].pc = (IF cb'[c].err.kind = "none" THEN "handler" ELSE "error")
        /\ (cb[c].pc = "error" /\ cb'[c] # cb[c]) => cb'[c].pc = "done"
        /\ (cb[c].pc = "error" /\ cb[c].err.kind = "HttpError" /\ cb'[c] # cb[c]) =>
              /\ cb[c].invoked = <<>>
              /\ cb'[c].invoked = IF req[c].responded THEN <<>> ELSE <<cb[c].err.code>>
              /\ cb'[c].raised = "none"
              /\ cb'[c].eh = "none" => ~conn'[c].closed
        /\ (task[c].pc = "callback" /\ task'[c] # task[c] /\ cb[c].pc = "done"
              /\ cb[c].err.kind = "HttpError" /\ cb[c].eh = "none") =>
              /\ task'[c].pc = "parse" <=> keep_alive(req[c])
              /\ task'[c].pc = "exit" <=> ~keep_alive(req[c])]_vars

\* a 404 raised before any response was rendered as an error page and the
\* loop went on to the next request
C11_Witness ==
    \E c \in DOMAIN conn :
        /\ task[c].pc = "parse" /\ task[c].again /\ ~conn[c].closed
        /\ cb[c].pc = "done" /\ cb[c].err = [kind |-> "HttpError", code |-> 404]
        /\ cb[c].invoked = <<404>> /\ cb[c].eh = "none"
        /\ conn[c].written = <<[part |-> "header", code |-> 404], [part |-> "body", code |-> 404]>>

(* C12: for every failure raised while resolving or handling a request (an
   HttpError or any other exception): if the request is not responded, a
   status line and an HTML error body are written to the connection (unless
   the error handler itself fails); if it is responded, nothing more is
   written and the connection is closed. *)
C12_FailureRendersOrCloses ==
    [][\A c \in DOMAIN conn :
        (cb[c].pc = "error" /\ cb'[c] # cb[c]) =>
            LET code == IF cb[c].err.kind = "HttpError" THEN cb[c].err.code ELSE 500
            IN IF ~req[c].responded
               THEN cb'[c].eh = "none" =>
                        conn'[c].written = conn[c].written \o
                            <<[part |-> "header", code |-> code], [part |-> "body", code |-> code]>>
               ELSE conn'[c].written = conn[c].written /\ conn'[c].closed]_vars

----------------------------------------------------------------------------
(* pyx/http.py: resources, path traversal and method dispatch *)

\* most '/'-separated pieces of a request path
MaxSegs == 3



\* urllib.parse.unquote: %XX with two hex digits becomes the character of
\* that code (a control character or a byte that is no UTF-8 is kept as a
\* token), any other % stays; Ascii are the printable characters from code
\* 32 on (the grave accent, code 96, is written 0x60)
RECURSIVE unquote(_)
unquote(s) ==
    LET HexUpper == <<"0", "1", "2", "3", "4", "5", "6", "7", "8", "9", "A", "B", "C", "D", "E", "F">>
        Ascii == <<" ", "!", "\"", "#", "$", "%", "&", "'", "(", ")", "*", "+", ",", "-", ".", "/", "0", "1", "2", "3", "4", "5", "6", "7", "8", "9", ":", ";", "<", "=", ">", "?", "@", "A", "B", "C", "D", "E", "F", "G", "H", "I", "J", "K", "L", "M", "N", "O", "P", "Q", "R", "S", "T", "U", "V", "W", "X", "Y", "Z", "[", "\\", "]", "^", "_", "0x60", "a", "b", "c", "d", "e", "f", "g", "h", "i", "j", "k", "l", "m", "n", "o", "p", "q", "r", "s", "t", "u", "v", "w", "x", "y", "z", "{", "|", "}", "~">>
        hex(c) == IndexIn(HexUpper, upper(<<c>>)[1])
        v == 16 * (hex(s[2]) - 1) + (hex(s[3]) - 1)
    IN IF s = <<>> THEN <<>>
       ELSE IF s[1] = "%" /\ Len(s) >= 3 /\ hex(s[2]) > 0 /\ hex(s[3]) > 0
            THEN <<IF v \in 32..126 THEN Ascii[v - 31]
                   ELSE IF v < 128 THEN "ctl" ELSE "U+FFFD">> \o unquote(SubSeq(s, 4, Len(s)))
       ELSE <<s[1]>> \o unquote(Tail(s))

\* a resource object: its class, and root and path of a StaticRootResource
Node(cls, root) == [cls |-> cls, root |-> root, path |-> <<>>]

\* the loop of StaticRootResource.get_child over the pieces of the key
RECURSIVE static_walk(_, _)
static_walk(path, segs) ==
    IF segs = <<>> THEN path
    ELSE IF Head(segs) = <<".", ".">>
         THEN static_walk(IF Len(path) > 0 THEN SubSeq(path, 1, Len(path) - 1) ELSE path,
                          Tail(segs))
    ELSE static_walk(Append(path, Head(segs)), Tail(segs))

\* the key is split and checked as it came and unquoted afterwards
static_get_child_late_unquote(path, key) ==
    LET raw == static_walk(path, split(key, "/"))
    IN [i \in 1..Len(raw) |-> unquote(raw[i])]

\* StaticRootResource.get_child: self.path after the call
static_get_child(path, key) == static_walk(path, split(unquote(key), "/"))

\* get_child of each resource class: the exception raised or the node
\* returned
get_child(node, key) ==
    CASE node.cls = "StaticRootResource" ->
            [exc |-> "none", ret |-> [node EXCEPT !.path = static_get_child(@, key)]]
      [] node.cls = "DummyResource" ->
            IF key = <<"h", "e", "l", "l", "o">> THEN [exc |-> "none", ret |-> node]
            ELSE IF key = <<"s", "t", "a", "t", "i", "c">>
                 THEN [exc |-> "none", ret |-> Node("StaticRootResource", <<".">>)]
            ELSE [exc |-> "HttpError404", ret |-> node]
      [] OTHER -> [exc |-> "NotImplementedError", ret |-> node]

\* StaticRootResource._build_real_path: os.path.join(self.root, *self.path),
\* one component after the other
RECURSIVE _build_real_path(_, _)
_build_real_path(root, path) ==
    LET path_join(a, b) ==
            IF b # <<>> /\ b[1] = "/" THEN b
            ELSE IF a = <<>> \/ a[Len(a)] = "/" THEN a \o b
            ELSE a \o <<"/">> \o b
    IN IF path = <<>> THEN root
       ELSE _build_real_path(path_join(root, Head(path)), Tail(path))

\* every piece of the path is passed to get_child
visited_all(s) == TRUE

\* UrlResource.traverse: if len(s) > 0
visited(s) == Len(s) > 0

\* the table is started anew
dict_methods_replace(d, method_list, handler) ==
    [k \in {upper(method_list[i]) : i \in 1..Len(method_list)} |-> handler]

\* _HandleRequestDict.methods(method_list)(handler): the table d with the
\* handler under each method name in upper case
dict_methods(d, method_list, handler) ==
    LET keys == {upper(method_list[i]) : i \in 1..Len(method_list)}
    IN [k \in DOMAIN d \cup keys |-> IF k \in keys THEN handler ELSE d[k]]

\* handle_request of each resource class: a table of handlers per method,
\* methods(method_list)(handler) being a new table, or a plain handler
handle_request(cls) ==
    LET methods(method_list, handler) == dict_methods(<<>>, method_list, handler)
    IN
    CASE cls = "StaticRootResource" ->
            [table |-> TRUE, plain |-> "",
             d |-> methods(<<<<"G", "E", "T">>>>, "StaticRootResource.handle_request")]
      [] cls = "SomeRes" ->
            [table |-> TRUE, plain |-> "",
             d |-> dict_methods(methods(<<<<"G", "E", "T">>, <<"H", "E", "A", "D">>>>, "SomeRes.handle_request"),
                                <<<<"P", "O", "S", "T">>>>, "SomeRes.handle_post")]
      [] OTHER -> [table |-> FALSE, plain |-> "UrlResource.handle_request", d |-> <<>>]

\* UrlResource._do_handle_request(req) for req.method: the handlers invoked
\* and the exception raised; the handler of the base class raises
_do_handle_request(node, method) ==
    LET h == handle_request(node.cls)
    IN IF h.table
       THEN IF method \in DOMAIN h.d THEN [exc |-> "none", invoked |-> <<h.d[method]>>]
            ELSE [exc |-> "HttpError501", invoked |-> <<>>]
       ELSE [exc |-> "NotImplementedError", invoked |-> <<h.plain>>]


\* a request for a path is about to be resolved at a root resource: the
\* path is '/'.join of some pieces; the roots are the base class, the
\* resource of the tests, a static root and the resource of the
\* documentation of methods()
InitRes ==
    /\ LET SegChoices ==
               {<<>>, <<"h", "e", "l", "l", "o">>, <<"s", "t", "a", "t", "i", "c">>, <<"x">>, <<".", ".">>, <<"%", "2", "e", "%", "2", "E">>, <<"%", "2", "e", "%", "2", "e", "%", "2", "f", "%", "2", "e", "%", "2", "e">>, <<"x", "%", "2", "F", ".", ".">>, <<"%", "2", "f", "x">>}
           join_slash(segs) ==
               Join([i \in 1..Len(segs) |-> IF i = 1 THEN segs[i] ELSE <<"/">> \o segs[i]])
           Roots ==
               {Node("UrlResource", <<>>), Node("DummyResource", <<>>),
                Node("StaticRootResource", <<"/", "s", "r", "v">>), Node("SomeRes", <<>>)}
       IN \E root \in Roots, p \in {join_slash(segs) : segs \in SeqsUpTo(SegChoices, MaxSegs)} :
             res = [pc |-> "loop", root |-> root, path |-> p, segs |-> split(p, "/"),
                    node |-> root, calls |-> <<>>, exc |-> "none", method |-> <<>>,
                    invoked |-> <<>>, real |-> <<>>]
    /\ IdleReaders
    /\ IdleHttp
    /\ msg = <<>> /\ aio = <<>>

\* UrlResource.traverse: one turn of the loop over the pieces of the path;
\* when the pieces are used up the node is returned
TraverseStep ==
    /\ res # <<>>
    /\ res.pc = "loop"
    /\ LET s == Head(res.segs)
           o == get_child(res.node, s)
           more == IF Len(res.segs) > 1 THEN "loop" ELSE "traversed"
       IN IF ~visited(s)
          THEN res' = [res EXCEPT !.segs = Tail(@), !.pc = more]
          ELSE res' = [res EXCEPT !.segs = Tail(@),
                                  !.calls = Append(@, [on |-> res.node, key |-> s,
                                                       exc |-> o.exc, ret |-> o.ret]),
                                  !.node = o.ret,
                                  !.exc = o.exc,
                                  !.pc = IF o.exc # "none" THEN "raised" ELSE more]
    /\ UNCHANGED <<readerVars, httpVars, msg, aio>>

\* HttpRequestCB.__call__: the request, its method as written in the request
\* line and in upper case as parsed, is passed to the resource found; the handler of a static root starts by
\* building the real path
Dispatch ==
    /\ res # <<>>
    /\ res.pc = "traversed"
    /\ \E m \in {<<"G", "E", "T">>, <<"g", "e", "t">>, <<"H", "e", "a", "d">>, <<"P", "O", "S", "T">>, <<"P", "U", "T">>} :
          LET o == _do_handle_request(res.node, upper(m))
          IN res' = [res EXCEPT !.pc = "handled", !.method = m,
                                !.invoked = o.invoked, !.exc = o.exc,
                                !.real = IF o.invoked = <<"StaticRootResource.handle_request">>
                                         THEN _build_real_path(res.node.root, res.node.path)
                                         ELSE <<>>]
    /\ UNCHANGED <<readerVars, httpVars, msg, aio>>

SpecResource == InitRes /\ [][TraverseStep \/ Dispatch]_vars


----------------------------------------------------------------------------
(* Properties of resources *)

\* C13: traversing a fresh StaticRootResource(root) with any request path
\* leaves a segment list that never holds the segment '..' nor a segment
\* with a '/', a '..' applied to the empty list changes nothing, and the
\* real path is root followed by the segments of the list in their order,
\* so none of its components below root is '..' and it never lies outside
\* root
C13_StaticPathInsideRoot ==
    /\ res.node.cls = "StaticRootResource" =>
          LET root == res.node.root
              path == res.node.path
              real == _build_real_path(root, path)
              rest == split(SliceFrom(real, Len(root)), "/")
              NonEmpty(s) == s # <<>>
          IN /\ \A i \in 1..Len(path) :
                   /\ path[i] # <<".", ".">>
                   /\ \A j \in 1..Len(path[i]) : path[i][j] # "/"
             /\ Slice(real, 0, Len(root)) = root
             /\ \A i \in 1..Len(rest) : rest[i] # <<".", ".">>
             /\ SelectSeq(rest, NonEmpty) = SelectSeq(path, NonEmpty)
             /\ res.invoked = <<"StaticRootResource.handle_request">> => res.real = real
    /\ \A k \in 1..Len(res.calls) :
          LET call == res.calls[k]
          IN (/\ call.on.cls = "StaticRootResource"
              /\ call.on.path = <<>>
              /\ call.key \in {<<".", ".">>, <<"%", "2", "e", "%", "2", "E">>, <<"%", "2", "e", "%", "2", "e", "%", "2", "f", "%", "2", "e", "%", "2", "e">>}) =>
                 call.ret.path = <<>>

C13_Witness ==
    /\ res.pc = "handled"
    /\ res.root = Node("StaticRootResource", <<"/", "s", "r", "v">>)
    /\ res.path = <<".", ".", "/", "%", "2", "e", "%", "2", "e", "%", "2", "f", "%", "2", "e", "%", "2", "e", "/", "x">>
    /\ res.node.path = <<<<"x">>>>
    /\ res.real = <<"/", "s", "r", "v", "/", "x">>


\* C14: traverse(path) calls get_child once for each non-empty run of the
\* raw path between '/' characters, from left to right, each call on the
\* node the previous call returned, and returns the last node; for '' and
\* '/' it returns the resource itself with no call; when get_child raises,
\* the exception leaves traverse and no later piece is visited
C14_TraverseVisitsSegments ==
    LET p == res.path
        starts == {i \in 1..Len(p) : p[i] # "/" /\ (i = 1 \/ p[i - 1] = "/")}
        end(i) == CHOOSE j \in i..Len(p) :
                      /\ \A k \in i..j : p[k] # "/"
                      /\ j = Len(p) \/ p[j + 1] = "/"
        nth(k) == CHOOSE i \in starts : Cardinality({h \in starts : h < i}) = k - 1
        expected == [k \in 1..Cardinality(starts) |-> SubSeq(p, nth(k), end(nth(k)))]
        n == Len(res.calls)
    IN /\ n <= Len(expected)
       /\ \A k \in 1..n :
             /\ res.calls[k].key = expected[k]
             /\ res.calls[k].on = IF k = 1 THEN res.root ELSE res.calls[k - 1].ret
             /\ res.calls[k].exc # "none" => k = n /\ res.pc = "raised"
       /\ res.pc \in {"traversed", "handled"} =>
             /\ n = Len(expected)
             /\ res.node = IF n = 0 THEN res.root ELSE res.calls[n].ret
       /\ res.pc = "raised" =>
             /\ n >= 1
             /\ res.exc = res.calls[n].exc
             /\ res.exc \in {"HttpError404", "NotImplementedError"}
       /\ (p \in {<<>>, <<"/">>} /\ res.pc # "loop") => n = 0 /\ res.node = res.root

C14_Witness ==
    /\ res.pc = "traversed"
    /\ res.root.cls = "DummyResource"
    /\ res.path = <<"/", "s", "t", "a", "t", "i", "c", "/", "x">>
    /\ Len(res.calls) = 2
    /\ res.calls[2].on = Node("StaticRootResource", <<".">>)
    /\ res.node.path = <<<<"x">>>>


\* C15: a resource whose handle_request is a table built with methods([..])
\* and handle_request.methods([..]) passes a request to the one handler
\* registered for its method in upper case, and fails with HttpError 501,
\* no handler invoked, when the method is no key of the table; a plain
\* handle_request is invoked for every method; a StaticRootResource
\* registers GET only, every other method gives 501
C15_DispatchByMethod ==
    res.pc = "handled" =>
        LET method == upper(res.method)
            served(h) == res.invoked = <<h>> /\ res.exc = "none"
            refused == res.invoked = <<>> /\ res.exc = "HttpError501"
        IN CASE res.node.cls = "SomeRes" ->
                    IF method \in {<<"G", "E", "T">>, <<"H", "E", "A", "D">>} THEN served("SomeRes.handle_request")
                    ELSE IF method = <<"P", "O", "S", "T">> THEN served("SomeRes.handle_post")
                    ELSE refused
             [] res.node.cls = "StaticRootResource" ->
                    IF method = <<"G", "E", "T">> THEN served("StaticRootResource.handle_request")
                    ELSE refused
             [] OTHER -> res.invoked = <<"UrlResource.handle_request">>

C15_Witness ==
    /\ res.pc = "handled"
    /\ res.node.cls = "SomeRes"
    /\ res.method = <<"H", "e", "a", "d">>
    /\ res.invoked = <<"SomeRes.handle_request">>


----------------------------------------------------------------------------
(* pyx/http.py: a request read from its lines, and lookups in its headers *)

\* most tokens of a request line
MaxTokens == 4

\* most header lines of a request
MaxHeaders == 3

\* the keys are compared as they are written
get_kv_exact(kv_list, key) ==
    LET Matches(i) == i.key = key
        found == SelectSeq(kv_list, Matches)
    IN [n \in 1..Len(found) |-> found[n].value]

\* get_kv: the values of the headers whose key matches the key without
\* regard to case, in the order of the list
get_kv(kv_list, key) ==
    LET Matches(i) == upper(i.key) = upper(key)
        found == SelectSeq(kv_list, Matches)
    IN [n \in 1..Len(found) |-> found[n].value]

\* a connection whose reader holds the lines of one request, then EOF: a
\* request line made of tokens with single spaces between them, or a fixed
\* request line followed by header lines
InitParse ==
    /\ LET Tokens ==
               {<<>>, <<"g", "e", "t">>, <<"/">>, <<"/", "a", "?", "b", "?", "c">>, <<"H", "t", "t", "p", "/", "1", ".", "1">>, <<"h", "/", "2">>, <<"H", "T", "T", "P">>, <<"H", "/", "1", ".", "x">>}
           HeaderLines ==
               {<<"H", "o", "s", "t", ":", " ", "h", "\r", "\n">>, <<"h", "O", "S", "T", ":", "g", "\r", "\n">>, <<" ", "a", " ", ":", " ", "b", " ", "\r", "\n">>, <<"a", ":", "b", ":", "c", "\r", "\n">>, <<"k", ":", "\r", "\n">>,
                <<"n", "o", "c", "o", "l", "o", "n", "\r", "\n">>, <<":", " ", "v", "\r", "\n">>, <<" ", "\t", ":", "x", "\r", "\n">>, <<"\n">>, CRLF, <<"x", ":", " ", "0xFF", "\r", "\n">>}
           join_space(t) ==
               Join([i \in 1..Len(t) |-> IF i = 1 THEN t[i] ELSE <<" ">> \o t[i]])
           Request(t, pad, h) ==
               [tokens |-> t, pad |-> pad, lines |-> <<pad \o join_space(t) \o pad \o CRLF>> \o h]
           Requests ==
               {Request(t, <<>>, <<>>) : t \in SeqsUpTo(Tokens, MaxTokens)}
               \cup {Request(<<<<"g", "e", "t">>, <<"/", "0xFF">>>>, <<>>, <<>>),
                     Request(<<<<"g", "e", "t">>, <<"/">>, <<"h", "/", "-", "1", ".", "0">>>>, <<>>, <<>>),
                     Request(<<<<"g", "e", "t">>, <<"/">>, <<"h", "/", "1", ".", "-", "2">>>>, <<>>, <<>>),
                     Request(<<<<"g", "e", "t">>, <<"/">>, <<"h", "/", "2">>>>, <<" ", "\t">>, <<>>)}
               \cup {Request(<<<<"g", "e", "t">>, <<"/">>, <<"h", "/", "2">>>>, <<>>, h) : h \in SeqsUpTo(HeaderLines, MaxHeaders)}
       IN \E r \in Requests :
             msg = [pc |-> "req_line", tokens |-> r.tokens, pad |-> r.pad, lines |-> r.lines,
                    req |-> NoReq, exc |-> "none",
                    key |-> <<>>, get_header |-> <<>>, get_first_header |-> None]
    /\ IdleReaders
    /\ IdleHttp
    /\ res = <<>> /\ aio = <<>>

\* HttpRequest.parse: the request line is read and parsed
ParseReqLine ==
    /\ msg # <<>>
    /\ msg.pc = "req_line"
    /\ LET p == _parse_req_line(msg.req, readline_at(msg.lines, 1))
       IN msg' = [msg EXCEPT !.req = p.req, !.exc = p.exc,
                             !.pc = IF p.exc = "none" THEN "headers" ELSE "failed"]
    /\ UNCHANGED <<readerVars, httpVars, res, aio>>

\* HttpRequest.parse: the header lines are read and parsed, and the request
\* is returned
ParseHeaders ==
    /\ msg # <<>>
    /\ msg.pc = "headers"
    /\ LET p == parse_headers(msg.req, msg.lines, 2)
       IN msg' = [msg EXCEPT !.req = p.req, !.exc = p.exc,
                             !.pc = IF p.exc = "none" THEN "parsed" ELSE "failed"]
    /\ UNCHANGED <<readerVars, httpVars, res, aio>>

\* HttpMessage.get_header and HttpMessage.get_first_header for a key
Lookup ==
    /\ msg # <<>>
    /\ msg.pc = "parsed"
    /\ \E key \in {<<"h", "o", "s", "t">>, <<"H", "O", "S", "T">>, <<"A">>, <<"k">>, <<"z", "z">>} :
          msg' = [msg EXCEPT !.pc = "looked_up", !.key = key,
                             !.get_header = get_kv(msg.req.headers, key),
                             !.get_first_header = get_first_kv(msg.req.headers, key)]
    /\ UNCHANGED <<readerVars, httpVars, res, aio>>

SpecParse == InitParse /\ [][ParseReqLine \/ ParseHeaders \/ Lookup]_vars


----------------------------------------------------------------------------
(* Properties of request parsing and header lookup *)

\* C16: parsing a request line that decodes succeeds only if, stripped, it
\* is three tokens with single spaces between them, the third with a '/';
\* then method is the first token in upper case, path and query are the
\* second token cut at its first '?' (no query without a '?'), protocol is
\* the third token up to its first '/' in upper case and version is
\* (MAJOR, MINOR), MINOR being 0 when the version has no '.'; an empty line,
\* another number of tokens or a third token without '/' fails with
\* BadHttpRequestError
C16_RequestLine ==
    [][
    LET t == msg.tokens
        filled == {i \in 1..Len(t) : t[i] # <<>>}
        core == IF filled = {} THEN <<>>
                ELSE SubSeq(t, CHOOSE i \in filled : \A j \in filled : i <= j,
                               CHOOSE i \in filled : \A j \in filled : i >= j)
        decodes == \A i \in 1..Len(t) : \A j \in 1..Len(t[i]) : t[i][j] # "0xFF"
        three == /\ Len(core) = 3
                 /\ core[3] \in {<<"/">>, <<"/", "a", "?", "b", "?", "c">>, <<"H", "t", "t", "p", "/", "1", ".", "1">>, <<"h", "/", "2">>, <<"H", "/", "1", ".", "x">>,
                                  <<"h", "/", "-", "1", ".", "0">>, <<"h", "/", "1", ".", "-", "2">>}
        method == CASE core[1] = <<"g", "e", "t">> -> <<"G", "E", "T">>
                    [] core[1] = <<"/", "a", "?", "b", "?", "c">> -> <<"/", "A", "?", "B", "?", "C">>
                    [] core[1] = <<"H", "t", "t", "p", "/", "1", ".", "1">> -> <<"H", "T", "T", "P", "/", "1", ".", "1">>
                    [] core[1] = <<"h", "/", "2">> -> <<"H", "/", "2">>
                    [] core[1] = <<"H", "/", "1", ".", "x">> -> <<"H", "/", "1", ".", "X">>
                    [] OTHER -> core[1]
        path == IF core[2] = <<"/", "a", "?", "b", "?", "c">> THEN <<"/", "a">> ELSE core[2]
        query == IF core[2] = <<"/", "a", "?", "b", "?", "c">> THEN <<<<"b", "?", "c">>>> ELSE None
    IN (msg # <<>> /\ msg.pc = "req_line" /\ decodes) =>
            /\ msg'.pc = "headers" => three
            /\ (three /\ core[3] = <<"H", "t", "t", "p", "/", "1", ".", "1">>) =>
                  /\ msg'.pc = "headers"
                  /\ msg'.req = [NoReq EXCEPT !.method = method, !.path = path, !.query = query,
                                              !.protocol = <<"H", "T", "T", "P">>, !.version = <<1, 1>>]
            /\ (three /\ core[3] = <<"h", "/", "2">>) =>
                  /\ msg'.pc = "headers"
                  /\ msg'.req = [NoReq EXCEPT !.method = method, !.path = path, !.query = query,
                                              !.protocol = <<"H">>, !.version = <<2, 0>>]
            /\ ~three => msg'.pc = "failed" /\ msg'.exc = "BadHttpRequestError"
    ]_vars

C16_Witness ==
    /\ msg # <<>>
    /\ msg.pc = "headers"
    /\ msg.tokens = <<<<>>, <<"g", "e", "t">>, <<"/", "a", "?", "b", "?", "c">>, <<"h", "/", "2">>>>
    /\ msg.req.method = <<"G", "E", "T">>
    /\ msg.req.query = <<<<"b", "?", "c">>>>
    /\ msg.req.version = <<2, 0>>


\* C17: while a request is parsed a header line without ':' or with its
\* first ':' at index 0 once stripped is skipped and the parse goes on;
\* every well-formed header line read before and after it is kept, in the
\* order of arrival, key and value stripped; reading stops at the first
\* line equal to '\r\n' or at a read of length zero; every header stored
\* has a non-empty key
C17_HeaderLines ==
    [][
    LET hs == SubSeq(msg.lines, 2, Len(msg.lines))
        ends == {i \in 1..Len(hs) : hs[i] = <<"\r", "\n">>}
        read == IF ends = {} THEN hs
                ELSE SubSeq(hs, 1, (CHOOSE i \in ends : \A j \in ends : i <= j) - 1)
        kept(line) ==
            CASE line = <<"H", "o", "s", "t", ":", " ", "h", "\r", "\n">> -> <<[key |-> <<"H", "o", "s", "t">>, value |-> <<"h">>]>>
              [] line = <<"h", "O", "S", "T", ":", "g", "\r", "\n">> -> <<[key |-> <<"h", "O", "S", "T">>, value |-> <<"g">>]>>
              [] line = <<" ", "a", " ", ":", " ", "b", " ", "\r", "\n">> -> <<[key |-> <<"a">>, value |-> <<"b">>]>>
              [] line = <<"a", ":", "b", ":", "c", "\r", "\n">> -> <<[key |-> <<"a">>, value |-> <<"b", ":", "c">>]>>
              [] line = <<"k", ":", "\r", "\n">> -> <<[key |-> <<"k">>, value |-> <<>>]>>
              [] OTHER -> <<>>
        decodes == \A i \in 1..Len(read) : \A j \in 1..Len(read[i]) : read[i][j] # "0xFF"
    IN (msg # <<>> /\ msg.pc = "headers" /\ decodes) =>
          /\ msg'.pc = "parsed"
          /\ msg'.req = [msg.req EXCEPT !.headers = Join([i \in 1..Len(read) |-> kept(read[i])])]
          /\ \A i \in 1..Len(msg'.req.headers) : msg'.req.headers[i].key # <<>>
    ]_vars

C17_Witness ==
    /\ msg # <<>>
    /\ msg.pc = "parsed"
    /\ SubSeq(msg.lines, 2, Len(msg.lines)) = <<<<"H", "o", "s", "t", ":", " ", "h", "\r", "\n">>, <<" ", "\t", ":", "x", "\r", "\n">>, <<" ", "a", " ", ":", " ", "b", " ", "\r", "\n">>>>
    /\ msg.req.headers = <<[key |-> <<"H", "o", "s", "t">>, value |-> <<"h">>], [key |-> <<"a">>, value |-> <<"b">>]>>


\* C18: get_header(k) returns the values of all headers whose key is k up
\* to the case of letters, in the order of the header list, an empty list
\* when there is none; get_first_header(k) returns the first of them, or
\* None; the header list is left as it was
C18_HeaderLookup ==
    [][
    LET same == CASE msg'.key \in {<<"h", "o", "s", "t">>, <<"H", "O", "S", "T">>} -> {<<"H", "o", "s", "t">>, <<"h", "O", "S", "T">>}
                  [] msg'.key = <<"A">> -> {<<"a">>}
                  [] msg'.key = <<"k">> -> {<<"k">>}
                  [] OTHER -> {}
        Matches(h) == h.key \in same
        found == SelectSeq(msg.req.headers, Matches)
    IN (msg # <<>> /\ msg.pc = "parsed") =>
          /\ msg'.get_header = [n \in 1..Len(found) |-> found[n].value]
          /\ msg'.get_first_header = IF found = <<>> THEN None ELSE <<found[1].value>>
          /\ msg'.req = msg.req
    ]_vars

C18_Witness ==
    /\ msg # <<>>
    /\ msg.pc = "looked_up"
    /\ msg.key = <<"H", "O", "S", "T">>
    /\ Len(msg.req.headers) = 3
    /\ msg.get_header = <<<<"g">>, <<"h">>>>
    /\ msg.get_first_header = <<<<"g">>>>


----------------------------------------------------------------------------
(* pyx/http.py: responses to a request *)

\* most headers given to a response
MaxRespHeaders == 2

\* most calls of writer.write for a request
MaxWrites == 2

\* the list of write() ends with an empty element
HttpResponse_str_short(resp) ==
    LET fmt_abs(n) ==
            LET k == IF n >= 1000 THEN 4 ELSE IF n >= 100 THEN 3 ELSE IF n >= 10 THEN 2 ELSE 1
            IN [i \in 1..k |-> Digits[((n \div 10^(k - i)) % 10) + 1]]
        format(n) == IF n < 0 THEN <<"-">> \o fmt_abs(-n) ELSE fmt_abs(n)
        message == CASE resp.code = 200 -> <<"O", "K">>
                     [] resp.code = 303 -> <<"S", "e", "e", " ", "O", "t", "h", "e", "r">>
                     [] resp.code = 400 -> <<"B", "a", "d", " ", "R", "e", "q", "u", "e", "s", "t">>
                     [] resp.code = 404 -> <<"N", "o", "t", " ", "F", "o", "u", "n", "d">>
                     [] resp.code = 500 -> <<"I", "n", "t", "e", "r", "n", "a", "l", " ", "E", "r", "r", "o", "r">>
                     [] resp.code = 501 -> <<"N", "o", "t", " ", "I", "m", "p", "l", "e", "m", "e", "n", "t", "e", "d">>
        status == resp.protocol \o <<"/">> \o format(resp.version[1]) \o <<".">>
                      \o format(resp.version[2]) \o <<" ">> \o format(resp.code) \o <<" ">> \o message
        write_headers == [i \in 1..Len(resp.headers) |->
                              resp.headers[i].key \o <<":", " ">> \o resp.headers[i].value]
        write == <<status>> \o write_headers \o <<<<>>>>
    IN IF resp.code \notin status_messages THEN [exc |-> "KeyError", str |-> <<>>]
       ELSE [exc |-> "none",
             str |-> Join([i \in 1..Len(write) |-> IF i = 1 THEN write[i] ELSE CRLF \o write[i]])]

\* str(resp), which is '\r\n'.join(resp.write()): the status line, the lines
\* of write_headers() and a last element '\r\n'; KeyError for a code that
\* has no status message; format(n) is '{}'.format(n) of an integer of up
\* to four digits
HttpResponse_str(resp) ==
    LET fmt_abs(n) ==
            LET k == IF n >= 1000 THEN 4 ELSE IF n >= 100 THEN 3 ELSE IF n >= 10 THEN 2 ELSE 1
            IN [i \in 1..k |-> Digits[((n \div 10^(k - i)) % 10) + 1]]
        format(n) == IF n < 0 THEN <<"-">> \o fmt_abs(-n) ELSE fmt_abs(n)
        message == CASE resp.code = 200 -> <<"O", "K">>
                     [] resp.code = 303 -> <<"S", "e", "e", " ", "O", "t", "h", "e", "r">>
                     [] resp.code = 400 -> <<"B", "a", "d", " ", "R", "e", "q", "u", "e", "s", "t">>
                     [] resp.code = 404 -> <<"N", "o", "t", " ", "F", "o", "u", "n", "d">>
                     [] resp.code = 500 -> <<"I", "n", "t", "e", "r", "n", "a", "l", " ", "E", "r", "r", "o", "r">>
                     [] resp.code = 501 -> <<"N", "o", "t", " ", "I", "m", "p", "l", "e", "m", "e", "n", "t", "e", "d">>
        status == resp.protocol \o <<"/">> \o format(resp.version[1]) \o <<".">>
                      \o format(resp.version[2]) \o <<" ">> \o format(resp.code) \o <<" ">> \o message
        write_headers == [i \in 1..Len(resp.headers) |->
                              resp.headers[i].key \o <<":", " ">> \o resp.headers[i].value]
        write == <<status>> \o write_headers \o <<CRLF>>
    IN IF resp.code \notin status_messages THEN [exc |-> "KeyError", str |-> <<>>]
       ELSE [exc |-> "none",
             str |-> Join([i \in 1..Len(write) |-> IF i = 1 THEN write[i] ELSE CRLF \o write[i]])]

\* a request as parsed from its request line, no response started
InitResponse ==
    /\ \E req_line \in {<<"G", "E", "T", " ", "/", " ", "H", "T", "T", "P", "/", "1", ".", "1", "\r", "\n">>, <<"G", "E", "T", " ", "/", " ", "H", "T", "T", "P", "/", "1", ".", "0", "\r", "\n">>, <<"g", "e", "t", " ", "/", "a", "?", "b", " ", "h", "/", "2", "\r", "\n">>,
                        <<"G", "E", "T", " ", "/", " ", "H", "T", "T", "P", "/", "1", "0", ".", "1", "1", "\r", "\n">>} :
          msg = [pc |-> "request", req |-> _parse_req_line(NoReq, req_line).req,
                 resp |-> <<>>, written |-> <<>>, writes |-> 0, exc |-> "none",
                 op |-> "none", code |-> 0]
    /\ IdleReaders
    /\ IdleHttp
    /\ res = <<>> /\ aio = <<>>

\* the response keeps the version of its construction
respond_plain(r, code) ==
    [code |-> code, protocol |-> <<"H", "T", "T", "P">>, version |-> <<1, 1>>,
     headers |-> <<[key |-> <<"S", "e", "r", "v", "e", "r">>,
                    value |-> <<"P", "y", "x", " ", "0", ".", "1", ".", "0">>]>>]

\* HttpRequest.respond(code): a new HttpResponse with the version of the
\* request
respond(r, code) ==
    [code |-> code, protocol |-> <<"H", "T", "T", "P">>, version |-> r.version,
     headers |-> <<[key |-> <<"S", "e", "r", "v", "e", "r">>,
                    value |-> <<"P", "y", "x", " ", "0", ".", "1", ".", "0">>]>>]

\* resp = req.respond(code)
Respond ==
    /\ msg # <<>>
    /\ msg.pc \in {"request", "sent", "body"}
    /\ \E code \in status_messages \cup {204} :
          msg' = [msg EXCEPT !.pc = "response", !.op = "respond", !.code = code,
                             !.resp = respond(msg.req, code)]
    /\ UNCHANGED <<readerVars, httpVars, res, aio>>

\* resp.headers = [...]
SetHeaders ==
    /\ msg # <<>>
    /\ msg.pc = "response"
    /\ \E headers \in SeqsUpTo({[key |-> <<"S", "e", "r", "v", "e", "r">>, value |-> <<"P", "y", "x">>],
                                [key |-> <<"C", "o", "n", "n", "e", "c", "t", "i", "o", "n">>, value |-> <<"k", "e", "e", "p", "-", "a", "l", "i", "v", "e">>],
                                [key |-> <<"X">>, value |-> <<>>]}, MaxRespHeaders) :
          msg' = [msg EXCEPT !.pc = "ready", !.op = "headers",
                             !.resp = [@ EXCEPT !.headers = headers]]
    /\ UNCHANGED <<readerVars, httpVars, res, aio>>

\* yield from resp.send(); drain raises when the peer is gone
Send ==
    /\ msg # <<>>
    /\ msg.pc \in {"response", "ready"}
    /\ msg.writes < MaxWrites
    /\ \E drained \in BOOLEAN :
          LET s == HttpResponse_str(msg.resp)
              responded == [msg EXCEPT !.op = "send", !.req = [@ EXCEPT !.responded = TRUE]]
          IN IF s.exc # "none"
             THEN msg' = [responded EXCEPT !.pc = "failed", !.exc = s.exc]
             ELSE msg' = [responded EXCEPT !.pc = IF drained THEN "sent" ELSE "failed",
                                           !.exc = IF drained THEN "none" ELSE "ConnectionResetError",
                                           !.written = s.str,
                                           !.writes = @ + 1]
    /\ UNCHANGED <<readerVars, httpVars, res, aio>>

\* yield from resp.send_body(data) for a str or for bytes
SendBody ==
    /\ msg # <<>>
    /\ msg.pc \in {"response", "ready", "sent", "body"}
    /\ msg.writes < MaxWrites
    /\ \E data \in {<<"h", "i">>, <<>>}, drained \in BOOLEAN :
          msg' = [msg EXCEPT !.op = "send_body",
                             !.pc = IF drained THEN "body" ELSE "failed",
                             !.exc = IF drained THEN "none" ELSE "ConnectionResetError",
                             !.written = data,
                             !.writes = @ + 1]
    /\ UNCHANGED <<readerVars, httpVars, res, aio>>

SpecResponse == InitResponse /\ [][Respond \/ SetHeaders \/ Send \/ SendBody]_vars


----------------------------------------------------------------------------
(* Properties of responses *)

\* C19: the header block written for a response whose code has a status
\* message, with any list of headers, the empty one included, is the status
\* line 'protocol/major.minor code reason', then one line 'Key: Value' per
\* header in the order of the list, each line ended by '\r\n', then one
\* empty line: the block ends with '\r\n\r\n' and has no other empty line
C19_HeaderBlock ==
    (msg # <<>> /\ msg.pc = "sent") =>
        LET resp == msg.resp
            version == CASE resp.version = <<1, 1>> -> <<"1", ".", "1">>
                         [] resp.version = <<1, 0>> -> <<"1", ".", "0">>
                         [] resp.version = <<2, 0>> -> <<"2", ".", "0">>
                         [] resp.version = <<10, 11>> -> <<"1", "0", ".", "1", "1">>
            code == CASE resp.code = 200 -> <<"2", "0", "0", " ", "O", "K">>
                      [] resp.code = 303 -> <<"3", "0", "3", " ", "S", "e", "e", " ", "O", "t", "h", "e", "r">>
                      [] resp.code = 400 -> <<"4", "0", "0", " ", "B", "a", "d", " ", "R", "e", "q", "u", "e", "s", "t">>
                      [] resp.code = 404 -> <<"4", "0", "4", " ", "N", "o", "t", " ", "F", "o", "u", "n", "d">>
                      [] resp.code = 500 -> <<"5", "0", "0", " ", "I", "n", "t", "e", "r", "n", "a", "l", " ", "E", "r", "r", "o", "r">>
                      [] resp.code = 501 -> <<"5", "0", "1", " ", "N", "o", "t", " ", "I", "m", "p", "l", "e", "m", "e", "n", "t", "e", "d">>
            line(h) == h.key \o <<":", " ">> \o h.value \o <<"\r", "\n">>
            block == msg.written
            n == Len(block)
        IN /\ block = <<"H", "T", "T", "P", "/">> \o version \o <<" ">> \o code \o <<"\r", "\n">>
                         \o Join([i \in 1..Len(resp.headers) |-> line(resp.headers[i])])
                         \o <<"\r", "\n">>
           /\ SubSeq(block, n - 3, n) = <<"\r", "\n", "\r", "\n">>
           /\ SubSeq(block, 1, 2) # <<"\r", "\n">>
           /\ \A i \in 1..(n - 4) : SubSeq(block, i, i + 3) # <<"\r", "\n", "\r", "\n">>

C19_Witness ==
    /\ msg # <<>>
    /\ msg.pc = "sent"
    /\ msg.resp.code = 200
    /\ msg.resp.headers = <<[key |-> <<"S", "e", "r", "v", "e", "r">>, value |-> <<"P", "y", "x">>],
                            [key |-> <<"C", "o", "n", "n", "e", "c", "t", "i", "o", "n">>, value |-> <<"k", "e", "e", "p", "-", "a", "l", "i", "v", "e">>]>>
    /\ msg.written = <<"H", "T", "T", "P", "/", "1", ".", "1", " ", "2", "0", "0", " ", "O", "K", "\r", "\n", "S", "e", "r", "v", "e", "r", ":", " ", "P", "y", "x", "\r", "\n", "C", "o", "n", "n", "e", "c", "t", "i", "o", "n", ":", " ", "k", "e", "e", "p", "-", "a", "l", "i", "v", "e", "\r", "\n", "\r", "\n">>


\* C20: the responded flag of a request is false from its creation until
\* send() is called on a response that respond() gave for it, is true once
\* send() has been called, and is never set back to false; respond() and
\* send_body() leave it as it is, and the response that respond(code)
\* returns has that code and the version of the request
C20_RespondedFlag ==
    [][msg # <<>> =>
          /\ msg.pc = "request" => ~msg.req.responded
          /\ msg'.op = "send" => msg'.req.responded
          /\ msg'.op # "send" => msg'.req = msg.req
          /\ msg.req.responded => msg'.req.responded
          /\ msg'.op = "respond" =>
                /\ msg'.resp.code = msg'.code
                /\ msg'.resp.version = msg.req.version]_vars

C20_Witness ==
    /\ msg # <<>>
    /\ msg.op = "respond"
    /\ msg.req.responded
    /\ msg.writes = 2
    /\ msg.code = 404
    /\ msg.resp.code = 404
    /\ msg.resp.version = <<1, 0>>


----------------------------------------------------------------------------
(* pyx/io.py: AsyncFile *)

\* AsyncFile.DEFAULT_BLOCK_SIZE
AsyncFile_DEFAULT_BLOCK_SIZE == 8192

\* most bytes in a file
MaxFile == 3

\* largest n of a read
MaxAsk == 3

\* most reads of the file object that find it not ready
MaxBlocks == 2

\* most calls of AsyncFile.read
MaxReads == 2

\* self._fileobj.read(n) of a file object in non-blocking mode: it raises
\* BlockingIOError, raises another error, returns b'' at the end of the
\* file, or returns some of the next bytes, up to n of them when n >= 0
fileobj_read(a, n) ==
    {[kind |-> "BlockingIOError", res |-> <<>>, data |-> a.data] : x \in {1} \cap 1..(MaxBlocks - a.blocks)}
    \cup {[kind |-> "OSError", res |-> <<>>, data |-> a.data]}
    \cup {[kind |-> "data", res |-> Slice(a.data, 0, k), data |-> SliceFrom(a.data, k)] :
             k \in IF a.data = <<>> THEN {0}
                   ELSE 1..(IF n < 0 THEN Len(a.data) ELSE Min(n, Len(a.data)))}

\* an open file of some bytes, nothing read from it
InitFile ==
    /\ \E len \in 0..MaxFile :
          aio = [data |-> [i \in 1..len |-> i], rbuffer |-> <<>>, reader |-> <<>>,
                 future |-> [state |-> "none", result |-> <<>>], blocks |-> 0,
                 n |-> 0, data0 |-> <<>>, reads |-> 0, woken |-> 0]
    /\ IdleReaders
    /\ IdleHttp
    /\ res = <<>>
    /\ msg = <<>>

\* AsyncFile.read(n): the future it returns, done or left to the callback
\* that is registered with the event loop
AsyncFile_read ==
    /\ aio # <<>>
    /\ aio.future.state # "pending"
    /\ aio.reads < MaxReads
    /\ \E n \in -1..MaxAsk :
          LET a == [aio EXCEPT !.n = n, !.data0 = aio.data, !.reads = @ + 1, !.woken = 0]
          IN IF n = 0
             THEN aio' = [a EXCEPT !.future = [state |-> "done", result |-> <<>>]]
             ELSE \E r \in fileobj_read(aio, n) :
                     CASE r.kind = "BlockingIOError" ->
                             aio' = [a EXCEPT !.rbuffer = <<>>,
                                              !.blocks = @ + 1,
                                              !.reader = <<[n |-> IF n < 0 THEN AsyncFile_DEFAULT_BLOCK_SIZE
                                                                  ELSE Min(AsyncFile_DEFAULT_BLOCK_SIZE, n),
                                                            total |-> n]>>,
                                              !.future = [state |-> "pending", result |-> <<>>]]
                       [] r.kind = "OSError" ->
                             aio' = [a EXCEPT !.future = [state |-> "OSError", result |-> <<>>]]
                       [] OTHER ->
                             aio' = [a EXCEPT !.data = r.data,
                                              !.future = [state |-> "done", result |-> r.res]]
    /\ UNCHANGED <<readerVars, httpVars, res, msg>>

\* AsyncFile._read_ready(future, n, total), called by the event loop while
\* it is registered as the reader of the file
_read_ready ==
    /\ aio # <<>>
    /\ aio.reader # <<>>
    /\ LET n == aio.reader[1].n
           total == aio.reader[1].total
           a == [aio EXCEPT !.woken = @ + 1]
       IN IF aio.future.state = "cancelled"
          THEN aio' = [a EXCEPT !.reader = <<>>]
          ELSE \E r \in fileobj_read(aio, n) :
                  CASE r.kind = "BlockingIOError" -> aio' = [a EXCEPT !.blocks = @ + 1]
                    [] r.kind = "OSError" ->
                          aio' = [a EXCEPT !.reader = <<>>,
                                           !.future = [state |-> "OSError", result |-> <<>>]]
                    [] r.res = <<>> ->
                          aio' = [a EXCEPT !.reader = <<>>,
                                           !.future = [state |-> "done", result |-> aio.rbuffer]]
                    [] OTHER ->
                          LET rbuffer == aio.rbuffer \o r.res
                              more_to_go == total - Len(rbuffer)
                          IN IF total > 0
                             THEN IF more_to_go <= 0
                                  THEN aio' = [a EXCEPT !.data = r.data,
                                                        !.rbuffer = SliceFrom(rbuffer, n),
                                                        !.reader = <<>>,
                                                        !.future = [state |-> "done",
                                                                    result |-> Slice(rbuffer, 0, n)]]
                                  ELSE aio' = [a EXCEPT !.data = r.data,
                                                        !.rbuffer = rbuffer,
                                                        !.reader = <<[n |-> Min(AsyncFile_DEFAULT_BLOCK_SIZE, more_to_go),
                                                                      total |-> total]>>]
                             ELSE aio' = [a EXCEPT !.data = r.data, !.rbuffer = rbuffer]
    /\ UNCHANGED <<readerVars, httpVars, res, msg>>

SpecFile == InitFile /\ [][AsyncFile_read \/ _read_ready]_vars


----------------------------------------------------------------------------
(* Properties of AsyncFile and sendfile_async *)

\* C21: a read(n), n >= 0, that the ready callback completes returns the
\* next min(n, bytes left) bytes of the file, in order, and the file goes
\* on right after them: no byte is lost or given twice, whatever the
\* would-block results and partial reads of the file object were
C21_ReadReturnsNext ==
    (aio # <<>> /\ aio.future.state = "done" /\ aio.n >= 0 /\ aio.woken > 0) =>
        LET k == Min(aio.n, Len(aio.data0))
        IN /\ aio.future.result = SubSeq(aio.data0, 1, k)
           /\ aio.data = SubSeq(aio.data0, k + 1, Len(aio.data0))


----------------------------------------------------------------------------
(* pyx/io.py: sendfile_async *)

\* largest offset given to sendfile_async
MaxOffset == 2

\* os.sendfile(out_f, in_f, offset, nbytes) on a non-blocking destination:
\* it raises BlockingIOError, raises another error, or returns the number
\* of bytes copied, 0 at the end of the source; without an offset it copies
\* from the position of the source and moves it
os_sendfile(a, offset, nbytes) ==
    LET start == IF offset = None THEN a.pos ELSE offset[1]
        avail == Max(0, a.size - start)
    IN {[kind |-> "BlockingIOError", ret |-> 0, pos |-> a.pos] : x \in {1} \cap 1..(MaxBlocks - a.blocks)}
       \cup {[kind |-> "OSError", ret |-> 0, pos |-> a.pos]}
       \cup {[kind |-> "copied", ret |-> k, pos |-> IF offset = None THEN a.pos + k ELSE a.pos] :
                k \in IF avail = 0 THEN {0} ELSE 1..Min(nbytes, avail)}

\* sendfile_async(out_f, in_f, offset, nbytes) is called for a source of
\* some size
InitSendfile ==
    /\ \E size \in 0..MaxFile, nbytes \in 0..MaxAsk,
          offset \in {None} \cup {<<o>> : o \in 0..MaxOffset} :
          aio = [size |-> size, pos |-> 0, offset |-> offset, nbytes |-> nbytes,
                 left |-> nbytes,
                 cur_offset |-> IF offset = None THEN 0 ELSE offset[1],
                 total_size |-> IF offset = None THEN 0 ELSE offset[1] + nbytes,
                 pc |-> "loop", writer |-> <<>>,
                 future |-> [state |-> "none", result |-> 0],
                 blocks |-> 0, sent |-> 0, last |-> <<>>, exc |-> "none"]
    /\ IdleReaders
    /\ IdleHttp
    /\ res = <<>>
    /\ msg = <<>>

\* sendfile_async: the test of its loop and, when there is more to copy, the
\* call of _sendfile_async, which makes the system call and registers
\* _sendfile_cb as the writer of the destination when it would block
sendfile_async ==
    /\ aio # <<>>
    /\ aio.pc = "loop"
    /\ LET offset == IF aio.offset = None THEN None ELSE <<aio.cur_offset>>
           nbytes == IF aio.offset = None THEN aio.left ELSE aio.total_size - aio.cur_offset
           more == IF aio.offset = None THEN aio.left > 0 ELSE aio.cur_offset < aio.total_size
       IN IF ~more
          THEN aio' = [aio EXCEPT !.pc = "done"]
          ELSE \E r \in os_sendfile(aio, offset, nbytes) :
                  LET a == [aio EXCEPT !.last = <<[offset |-> offset, nbytes |-> nbytes,
                                                   kind |-> r.kind, ret |-> r.ret]>>]
                  IN CASE r.kind = "BlockingIOError" ->
                             aio' = [a EXCEPT !.blocks = @ + 1,
                                              !.writer = <<[offset |-> offset, nbytes |-> nbytes]>>,
                                              !.future = [state |-> "pending", result |-> 0],
                                              !.pc = "await"]
                       [] r.kind = "OSError" ->
                             aio' = [a EXCEPT !.future = [state |-> "OSError", result |-> 0],
                                              !.pc = "await"]
                       [] OTHER ->
                             aio' = [a EXCEPT !.pos = r.pos, !.sent = @ + r.ret,
                                              !.future = [state |-> "done", result |-> r.ret],
                                              !.pc = "await"]
    /\ UNCHANGED <<readerVars, httpVars, res, msg>>

\* _sendfile_cb(future, out_f, in_f, offset, nbytes, loop), called by the
\* event loop while it is registered as the writer of the destination
_sendfile_cb ==
    /\ aio # <<>>
    /\ aio.writer # <<>>
    /\ LET w == aio.writer[1]
       IN IF aio.future.state = "cancelled"
          THEN aio' = [aio EXCEPT !.writer = <<>>]
          ELSE \E r \in os_sendfile(aio, w.offset, w.nbytes) :
                  LET a == [aio EXCEPT !.last = <<[offset |-> w.offset, nbytes |-> w.nbytes,
                                                   kind |-> r.kind, ret |-> r.ret]>>]
                  IN CASE r.kind = "BlockingIOError" -> aio' = [a EXCEPT !.blocks = @ + 1]
                       [] r.kind = "OSError" ->
                             aio' = [a EXCEPT !.writer = <<>>,
                                              !.future = [state |-> "OSError", result |-> 0]]
                       [] OTHER ->
                             aio' = [a EXCEPT !.writer = <<>>, !.pos = r.pos, !.sent = @ + r.ret,
                                              !.future = [state |-> "done", result |-> r.ret]]
    /\ UNCHANGED <<readerVars, httpVars, res, msg>>

\* sendfile_async going on without counting what the last call copied
sendfile_resume_forgets ==
    /\ aio # <<>>
    /\ aio.pc = "await"
    /\ aio.future.state \in {"done", "OSError", "cancelled"}
    /\ IF aio.future.state = "cancelled"
       THEN aio' = [aio EXCEPT !.pc = "cancelled", !.exc = "CancelledError"]
       ELSE IF aio.future.state = "OSError"
       THEN aio' = [aio EXCEPT !.pc = "failed", !.exc = "OSError"]
       ELSE aio' = [aio EXCEPT !.pc = "loop"]
    /\ UNCHANGED <<readerVars, httpVars, res, msg>>

\* copied = yield from _sendfile_async(...): sendfile_async goes on with
\* the result of the future, or ends with its exception, CancelledError
\* when the future was cancelled
sendfile_resume ==
    /\ aio # <<>>
    /\ aio.pc = "await"
    /\ aio.future.state \in {"done", "OSError", "cancelled"}
    /\ IF aio.future.state = "cancelled"
       THEN aio' = [aio EXCEPT !.pc = "cancelled", !.exc = "CancelledError"]
       ELSE IF aio.future.state = "OSError"
       THEN aio' = [aio EXCEPT !.pc = "failed", !.exc = "OSError"]
       ELSE aio' = [aio EXCEPT !.pc = "loop",
                               !.left = IF aio.offset = None THEN @ - aio.future.result ELSE @,
                               !.cur_offset = IF aio.offset = None THEN @
                                              ELSE @ + aio.future.result]
    /\ UNCHANGED <<readerVars, httpVars, res, msg>>

SpecSendfile == InitSendfile /\ [][sendfile_async \/ _sendfile_cb \/ sendfile_resume]_vars

\* sendfile_async in a task that the event loop keeps running: a coroutine
\* that can go on is resumed, and the writer callback is called once the
\* destination is writable
SpecSendfileFair ==
    SpecSendfile /\ WF_vars(sendfile_async) /\ WF_vars(_sendfile_cb) /\ WF_vars(sendfile_resume)

\* the task awaiting sendfile_async is cancelled while _sendfile_cb is
\* registered: Task.cancel() cancels the future the task waits for
SendfileCancel ==
    /\ aio # <<>>
    /\ aio.pc = "await"
    /\ aio.future.state = "pending"
    /\ aio.writer # <<>>
    /\ aio' = [aio EXCEPT !.future = [state |-> "cancelled", result |-> 0]]
    /\ UNCHANGED <<readerVars, httpVars, res, msg>>

\* sendfile_async in a task that may be cancelled
SpecSendfileCancel ==
    InitSendfile /\ [][sendfile_async \/ _sendfile_cb \/ sendfile_resume \/ SendfileCancel]_vars


\* C22: every system call of sendfile_async asks for the bytes still
\* outstanding (nbytes less the counts returned so far) and, when an offset
\* was given, starts at that offset plus the counts returned so far; a call
\* that would block leaves the operation suspended with _sendfile_cb
\* registered as the writer of the destination, and it stays suspended
\* until the callback has a result; any other error of a call ends the
\* operation with that error; and when the operation completes, the counts
\* returned sum to nbytes
C22_SendfileTransfers ==
    [][ LET a == aio
            b == aio'
        IN /\ (b.last # a.last) =>
                  LET c == b.last[1]
                  IN /\ c.nbytes = a.nbytes - a.sent
                     /\ c.offset = IF a.offset = None THEN None
                                   ELSE <<a.offset[1] + a.sent>>
                     /\ (c.kind = "BlockingIOError") =>
                            /\ b.writer = <<[offset |-> c.offset, nbytes |-> c.nbytes]>>
                            /\ b.future.state = "pending"
                            /\ b.pc = "await"
                            /\ b.sent = a.sent
                     /\ (c.kind = "OSError") =>
                            /\ b.writer = <<>>
                            /\ b.future.state = "OSError"
                     /\ (c.kind = "copied") =>
                            /\ b.writer = <<>>
                            /\ b.sent = a.sent + c.ret
                            /\ c.ret <= c.nbytes
           /\ (a.pc = "await" /\ a.future.state = "pending") => b.pc = "await"
           /\ (a.pc = "await" /\ a.future.state = "OSError") =>
                  (b.pc = "failed" /\ b.exc = "OSError")
           /\ (b.pc = "done") => (b.sent = b.nbytes /\ b.writer = <<>>)
      ]_vars

\* a copy from an offset that took several calls, one of them after the
\* destination had been busy, has completed
C22_Witness ==
    /\ aio # <<>>
    /\ aio.pc = "done"
    /\ aio.offset # None
    /\ aio.offset[1] > 0
    /\ aio.blocks > 0
    /\ aio.sent = aio.nbytes
    /\ aio.last[1].nbytes < aio.nbytes


----------------------------------------------------------------------------
(* Properties of the readers, continued *)

\* C23: a readline() of a BoundaryReader that has not hit the boundary takes
\* the next two lines of the inner reader's logical stream; when they do not
\* contain the marker it returns the first and leaves the inner reader at
\* the second; when they do, it returns the bytes before the marker, sets
\* hit_boundary, and leaves the inner reader after the marker and a
\* following "--\r\n" or "\r\n", whatever follows the marker
C23_ReadlineStrips ==
    [][ (pc = "idle" /\ pc' = "idle" /\ result'.op = "readline" /\ ~hit_boundary) =>
            LET L == Logical(buffer, src)
                first(s) == LET i == Find(s, <<"\n">>, 0)
                            IN IF i < 0 THEN s ELSE Slice(s, 0, i + 1)
                line == first(L)
                line2 == first(SliceFrom(L, Len(line)))
                bd_idx == Find(line \o line2, _boundary, 0)
            IN /\ result'.exc = "none"
               /\ IF bd_idx < 0
                  THEN /\ result'.ret = line
                       /\ ~hit_boundary'
                       /\ Logical(buffer', src') = SliceFrom(L, Len(line))
                  ELSE /\ result'.ret = Slice(L, 0, bd_idx)
                       /\ hit_boundary'
                       /\ Logical(buffer', src') =
                              StripTrailer(SliceFrom(L, bd_idx + Len(_boundary)))
      ]_vars


\* C24: LengthReader.put(b) puts b at the front of the inner reader's
\* logical stream and adds len(b) to remaining; a read, readline or
\* readexactly that returns takes what it returns from the front of that
\* stream and subtracts its length from remaining, so putting back what a
\* call returned restores both the stream and remaining; what readline
\* pushes back of a line longer than remaining stays next in the inner
\* stream and remaining goes to 0
C24_PutGrowsRemaining ==
    [][ LET L == Logical(buffer, src)
            r == result'
        IN /\ (r.op = "put") =>
                  /\ Logical(buffer', src') = r.ret \o L
                  /\ remaining' = remaining + Len(r.ret)
           /\ (r.op \in {"read", "readline", "readexactly"} /\ r.exc = "none") =>
                  /\ r.ret \o Logical(buffer', src') = L
                  /\ remaining' = remaining - Len(r.ret)
                  /\ remaining' >= 0
           /\ (r.op = "readline" /\ remaining > 0 /\ Len(r.ret) = remaining) =>
                  remaining' = 0
      ]_vars

\* bytes were read and put back: the reader is where it started, with the
\* bytes on the pushback
C24_Witness ==
    /\ result.op = "put"
    /\ buffer # <<>>
    /\ Len(result.ret) > 1
    /\ remaining = length
    /\ budget = length
    /\ Logical(buffer, src) = stream0.all


\* C25: when a call sets hit_boundary, the inner reader's logical stream is
\* left beginning right after the marker and a following "--\r\n" or
\* "\r\n": what the call held of the stream up to the marker is not pushed
\* back, nothing after the trailer is lost, and later reads of the
\* BoundaryReader leave the inner reader alone
C25_InnerAfterBoundary ==
    [][ LET V == (IF pc = "read" THEN rd.buf \o rd.data ELSE <<>>) \o Logical(buffer, src)
            bd_idx == Find(V, _boundary, 0)
        IN /\ (hit_boundary' /\ ~hit_boundary) =>
                  /\ bd_idx >= 0
                  /\ Logical(buffer', src') = StripTrailer(SliceFrom(V, bd_idx + Len(_boundary)))
           /\ (hit_boundary /\ result'.op # "put") =>
                  Logical(buffer', src') = Logical(buffer, src)
      ]_vars


\* C26: a read(n), n >= 0, of a BoundaryReader that has not hit the boundary
\* returns at most n bytes, all of them from before the marker; when the
\* marker does not start within the first n bytes of the unread stream the
\* call returns the first n bytes (fewer only when the stream ends), and
\* what it read beyond them is back on the inner reader in order, so that
\* the next read goes on where this one stopped
C26_BoundedRead ==
    [][ (pc = "read" /\ pc' = "idle" /\ result'.op = "read" /\ result'.n >= 0) =>
            LET V == rd.buf \o rd.data \o Logical(buffer, src)
                n == result'.n
                ret == result'.ret
                p == Find(V, _boundary, 0)
                pre == IF p < 0 THEN V ELSE Slice(V, 0, p)
                rest == Logical(buffer', src')
            IN /\ Len(ret) <= n
               /\ ret = Slice(pre, 0, Len(ret))
               /\ (p < 0 \/ p >= n) => ret = Slice(V, 0, n)
               /\ (p < 0 \/ p > n) => (~hit_boundary' /\ ret \o rest = V)
               /\ (p = n) => (hit_boundary' \/ ret \o rest = V)
      ]_vars


\* C27: a read() without a bound of a BoundaryReader that has not hit the
\* boundary returns exactly the bytes of the unread stream before the
\* marker and sets hit_boundary, however the inner reads cut the stream,
\* the marker included; over a stream that ends without the marker it
\* returns every byte of it and leaves hit_boundary false
C27_UnboundedRead ==
    [][ (pc = "read" /\ pc' = "idle" /\ result'.op = "read" /\ result'.n < 0) =>
            LET V == rd.buf \o rd.data \o Logical(buffer, src)
                p == Find(V, _boundary, 0)
            IN /\ result'.exc = "none"
               /\ IF p >= 0
                  THEN result'.ret = Slice(V, 0, p) /\ hit_boundary'
                  ELSE /\ result'.ret = V
                       /\ ~hit_boundary'
                       /\ Logical(buffer', src') = <<>>
      ]_vars

\* an unbounded read holds the start of the marker and has just been handed
\* a block with its end, with more of the stream still to come
C27_Witness ==
    /\ pc = "read"
    /\ rd.n < 0
    /\ ~rx.on
    /\ rd.buf # <<>>
    /\ Find(rd.buf, _boundary, 0) < 0
    /\ Find(rd.data, _boundary, 0) < 0
    /\ Find(rd.buf \o rd.data, _boundary, 0) > 0
    /\ src # <<>>


\* C28: a readexactly(n), n >= 0, of a BoundaryReader that has not hit the
\* boundary returns the first n bytes of the unread stream when at least n
\* bytes come before the marker or, with no marker, before the end; otherwise
\* it raises IncompleteReadError with exactly the bytes before the marker or
\* the end as partial data, and hit_boundary is then true exactly when the
\* stream had the marker
C28_Readexactly ==
    [][ (pc' = "idle" /\ result'.op = "readexactly" /\ result'.n >= 0 /\ ~hit_boundary) =>
            LET V == (IF pc = "read" THEN rx.buf \o rd.buf \o rd.data ELSE <<>>)
                         \o Logical(buffer, src)
                n == result'.n
                p == Find(V, _boundary, 0)
                pre == IF p < 0 THEN V ELSE Slice(V, 0, p)
            IN IF Len(pre) >= n
               THEN result'.exc = "none" /\ result'.ret = Slice(V, 0, n)
               ELSE /\ result'.exc = "IncompleteReadError"
                    /\ result'.ret = pre
                    /\ hit_boundary' = (p >= 0)
      ]_vars


\* a readexactly asked for more than came before the marker: it raised with
\* the two bytes before it
C28_Witness ==
    /\ pc = "idle"
    /\ result.op = "readexactly"
    /\ result.exc = "IncompleteReadError"
    /\ result.n > 2
    /\ Len(result.ret) = 2
    /\ hit_boundary


\* C29: BufferedReader.readline() returns the next line of the logical
\* stream: when the pushback, latest chunk first, holds a "\n" it returns
\* the pushback through the first "\n", does not read the source and keeps
\* the rest as pushback; otherwise it returns the whole pushback followed by
\* one line of the source, read in one call, and leaves the pushback empty
C29_BufferedReadline ==
    [][ (result'.op = "readline") =>
            LET P == Join(Reverse(buffer))
                first(s) == LET i == Find(s, <<"\n">>, 0)
                            IN IF i < 0 THEN s ELSE Slice(s, 0, i + 1)
                ret == result'.ret
            IN /\ result'.exc = "none"
               /\ ret = first(Logical(buffer, src))
               /\ ret \o Logical(buffer', src') = Logical(buffer, src)
               /\ IF Find(P, <<"\n">>, 0) >= 0
                  THEN /\ ret = first(P)
                       /\ result'.calls = 0
                       /\ src' = src
                       /\ Join(Reverse(buffer')) = SliceFrom(P, Len(ret))
                  ELSE /\ ret = P \o first(src)
                       /\ result'.calls = 1
                       /\ buffer' = <<>>
                       /\ src' = SliceFrom(src, Len(first(src)))
      ]_vars

\* a line that began in the latest chunk pushed back and ended in an older
\* one, whose rest stays pushed back
C29_Witness ==
    /\ result.op = "readline"
    /\ result.calls = 0
    /\ result.ret = <<"a", "\n">>
    /\ Join(Reverse(buffer)) = <<"a">>
    /\ src # <<>>


\* C30: LengthReader.readline() with remaining > 0 takes one line from the
\* inner reader; of a line longer than remaining it returns the first
\* remaining bytes, leaves the rest next in the inner reader's stream and
\* sets remaining to 0; a line that fits is returned whole and remaining
\* goes down by its length; with remaining = 0 it returns empty and leaves
\* the inner reader alone
C30_LengthReadline ==
    [][ (result'.op = "readline") =>
            LET L == Logical(buffer, src)
                i == Find(L, <<"\n">>, 0)
                line == IF i < 0 THEN L ELSE Slice(L, 0, i + 1)
                ret == result'.ret
            IN /\ result'.exc = "none"
               /\ IF remaining > 0
                  THEN /\ result'.calls = 1
                       /\ IF Len(line) > remaining
                          THEN /\ ret = Slice(line, 0, remaining)
                               /\ remaining' = 0
                               /\ Logical(buffer', src') = SliceFrom(L, remaining)
                               /\ buffer' # <<>>
                               /\ buffer'[Len(buffer')] = SliceFrom(line, remaining)
                          ELSE /\ ret = line
                               /\ remaining' = remaining - Len(line)
                               /\ Logical(buffer', src') = SliceFrom(L, Len(line))
                  ELSE /\ ret = <<>>
                       /\ result'.calls = 0
                       /\ remaining' = 0
                       /\ buffer' = buffer
                       /\ src' = src
      ]_vars

\* a line of two bytes was cut after the first: the newline is pushed back
C30_Witness ==
    /\ result.op = "readline"
    /\ result.ret = <<"a">>
    /\ remaining = 0
    /\ buffer = <<<<"\n">>>>
    /\ src # <<>>


\* C31: LengthReader.readexactly(n) returns empty for n < 0; with remaining
\* >= n > 0 and n bytes in the inner reader it returns the next n bytes and
\* remaining goes down by n; with 0 < remaining < n it takes the next
\* remaining bytes from the inner reader, when it holds as many, and raises
\* IncompleteReadError with them, and raises it also when it holds fewer;
\* with remaining = 0 and n >= 0 it raises IncompleteReadError and leaves
\* the inner reader alone; read and readline with remaining = 0 return
\* empty and leave the inner reader alone
C31_LengthReadexactly ==
    [][ LET L == Logical(buffer, src)
            rest == Logical(buffer', src')
            r == result'
            n == r.n
            untouched == buffer' = buffer /\ src' = src /\ remaining' = remaining /\ r.calls = 0
        IN /\ (r.op = "readexactly" /\ n < 0) =>
                  (r.exc = "none" /\ r.ret = <<>> /\ untouched)
           /\ (r.op = "readexactly" /\ n > 0 /\ remaining >= n) =>
                  IF Len(L) >= n
                  THEN /\ r.exc = "none"
                       /\ r.ret = Slice(L, 0, n)
                       /\ remaining' = remaining - n
                       /\ rest = SliceFrom(L, n)
                  ELSE r.exc = "IncompleteReadError"
           /\ (r.op = "readexactly" /\ 0 < remaining /\ remaining < n) =>
                  /\ r.exc = "IncompleteReadError"
                  /\ r.calls = 1
                  /\ (Len(L) >= remaining) =>
                         (r.ret = Slice(L, 0, remaining) /\ rest = SliceFrom(L, remaining))
           /\ (r.op = "readexactly" /\ n >= 0 /\ remaining = 0) =>
                  (r.exc = "IncompleteReadError" /\ r.ret = <<>> /\ untouched)
           /\ (r.op \in {"read", "readline"} /\ remaining = 0) =>
                  (r.exc = "none" /\ r.ret = <<>> /\ untouched)
      ]_vars

\* a readexactly asked for more than remained: it took the bytes that
\* remained, with more left in the inner reader, and raised
C31_Witness ==
    /\ result.op = "readexactly"
    /\ result.exc = "IncompleteReadError"
    /\ result.calls = 1
    /\ Len(result.ret) > 0
    /\ Len(result.ret) < result.n
    /\ Len(result.ret) = remaining
    /\ Logical(buffer, src) # <<>>


----------------------------------------------------------------------------
(* Properties of the connection loop, continued *)

\* C32: when the error handler raises while the request callback handles an
\* HttpError or an exception turned into a 500, the callback ends without
\* raising and with the connection closed, and the loop then exits without
\* parsing a further request, whatever the request said about keep-alive
C32_ErrorHandlerFailure ==
    [][\A c \in DOMAIN conn :
        /\ (cb[c].pc = "error" /\ cb'[c] # cb[c] /\ cb'[c].eh # "none") =>
              /\ cb'[c].pc = "done"
              /\ cb'[c].raised = "none"
              /\ cb'[c].invoked # <<>>
              /\ conn'[c].closed /\ conn'[c].writer_closed
        /\ (task[c].pc = "callback" /\ task'[c] # task[c] /\ cb[c].eh # "none") =>
              /\ task'[c].pc = "exit"
              /\ conn'[c].closed]_vars

\* the error handler raised on an HttpError of a request that asked to keep
\* the connection alive: the loop is over and the connection closed
C32_Witness ==
    \E c \in DOMAIN conn :
        /\ task[c].pc = "exit"
        /\ cb[c].pc = "done" /\ cb[c].err.kind = "HttpError" /\ cb[c].eh # "none"
        /\ cb[c].raised = "none"
        /\ req[c].version = <<1, 1>> /\ req[c].headers = <<>>
        /\ conn[c].closed


\* C33: when the connection loop is over, however it ended (a request that
\* did not parse, the keep-alive decision, a close by the request callback,
\* an exception of the request callback), the connection is closed and so
\* is its writer; and close() on a closed connection leaves it closed
C33_ExitClosesWriter ==
    \A c \in DOMAIN conn :
        /\ (task[c].pc \in {"exit", "raised"}) =>
              (conn[c].closed /\ conn[c].writer_closed)
        /\ conn[c].closed => (close(conn[c]).closed /\ close(conn[c]).writer_closed)


----------------------------------------------------------------------------
(* Properties of AsyncFile and sendfile_async, continued *)

\* C34: no state is reached in which the task awaiting sendfile_async was
\* cancelled, the CancelledError has come out of sendfile_async to its
\* caller, and _sendfile_cb is still registered as writer of the destination
C34_CancelDeregisters ==
    ~(aio # <<>> /\ aio.pc = "cancelled" /\ aio.writer # <<>>)


----------------------------------------------------------------------------
(* Properties of request parsing, continued *)

\* C35: once the request line has been parsed without error, the version of
\* the request is a pair of integers that are not negative
C35_VersionNonNegative ==
    (msg # <<>> /\ msg.pc \in {"headers", "parsed", "looked_up"}) =>
        /\ Len(msg.req.version) = 2
        /\ msg.req.version[1] \in Nat
        /\ msg.req.version[2] \in Nat


----------------------------------------------------------------------------
(* Properties of responses, continued *)

\* C36: the responded flag of a request becomes true only in a step that
\* hands a complete header block, ended by an empty line, to the writer; it
\* never becomes true in a step that writes nothing
C36_RespondedMeansWritten ==
    [][(msg # <<>> /\ ~msg.req.responded /\ msg'.req.responded) =>
          LET block == msg'.written
              n == Len(block)
          IN /\ msg'.writes = msg.writes + 1
             /\ n >= 4
             /\ SubSeq(block, n - 3, n) = <<"\r", "\n", "\r", "\n">>]_vars


\* C37: while the event loop keeps running it, sendfile_async comes to an
\* end, with its result or with an error, also when the source ends before
\* nbytes bytes were copied and the system call returns 0
C37_SendfileCompletes ==
    <>(aio # <<>> /\ aio.pc \in {"done", "failed"})


----------------------------------------------------------------------------
(* Properties of the connection loop at the end of the stream *)

\* C38: when the peer has disconnected and the connection loop waits for
\* the next request, the loop comes to its end with the connection closed;
\* on the way the request callback is not started again and nothing is
\* written
C38_EofExits ==
    /\ [][(task["c1"].pc = "parse" /\ src = <<>>) =>
              /\ task'["c1"].pc \in {"parse", "exit"}
              /\ cb'["c1"] = cb["c1"]
              /\ conn'["c1"].written = conn["c1"].written]_vars
    /\ (task["c1"].pc = "parse" /\ src = <<>>) ~>
          (task["c1"].pc = "exit" /\ conn["c1"].closed /\ conn["c1"].writer_closed)

\* the peer went away after two requests that were served on a connection
\* kept alive
C38_Witness ==
    /\ src = <<>>
    /\ task["c1"].pc = "exit" /\ task["c1"].again
    /\ task["c1"].input = Input(<<>>)
    /\ cb["c1"].pc = "done" /\ cb["c1"].active = 0
    /\ conn["c1"].closed /\ conn["c1"].writer_closed
    /\ req["c1"].responded


----------------------------------------------------------------------------
(* Properties of the BufferedReader, continued *)

\* C39 as stated: a read(n) with n >= 0, or a readline(), followed by put()
\* of the bytes it returned leaves the logical stream as it was, and the
\* same read made again returns the same bytes
C39_PeekRepeats ==
    /\ \A n \in 0..MaxN : \A o \in BufferedReader_read(buffer, src, n) :
          /\ Logical(put(o.buffer, o.ret), o.src) = Logical(buffer, src)
          /\ \A o2 \in BufferedReader_read(put(o.buffer, o.ret), o.src, n) : o2.ret = o.ret
    /\ LET o == BufferedReader_readline(buffer, src)
       IN /\ Logical(put(o.buffer, o.ret), o.src) = Logical(buffer, src)
          /\ BufferedReader_readline(put(o.buffer, o.ret), o.src).ret = o.ret

\* C39 amended: a read(n) with n >= 0, or a readline(), followed by put()
\* of the bytes it returned leaves the logical stream as it was; the same
\* readline() made again returns the same line; the same read(n) made again
\* returns bytes that start with the bytes returned before, and exactly
\* those bytes when the first read returned n bytes or the source is at EOF
C39_PeekKeepsStream ==
    [][/\ \A n \in 0..MaxN : \A o \in BufferedReader_read(buffer, src, n) :
             Logical(put(o.buffer, o.ret), o.src) = Logical(buffer, src)
       /\ LET o == BufferedReader_readline(buffer, src)
          IN Logical(put(o.buffer, o.ret), o.src) = Logical(buffer, src)
       /\ (result.op = "readline" /\ result'.op = "put" /\ result'.ret = result.ret) =>
             BufferedReader_readline(buffer', src').ret = result.ret
       /\ (result.op = "read" /\ result.n >= 0 /\ result'.op = "put" /\ result'.ret = result.ret) =>
             \A o2 \in BufferedReader_read(buffer', src', result.n) :
                /\ Len(o2.ret) >= Len(result.ret)
                /\ SubSeq(o2.ret, 1, Len(result.ret)) = result.ret
                /\ (Len(result.ret) = result.n \/ src' = <<>>) => o2.ret = result.ret]_vars

\* two bytes were put back on top of an older chunk, with more to come from
\* the source
C39_Witness ==
    /\ result.op = "put"
    /\ result.ret = <<"a", "b">>
    /\ Len(buffer) = 2
    /\ buffer[2] = <<"a", "b">>
    /\ buffer[1] # <<>>
    /\ src # <<>>


\* C40: when readexactly(n) of a BufferedReader fails with the
\* IncompleteReadError of its source, the bytes it took from the pushback
\* are not lost: the partial data of the error followed by what the reader
\* still holds is the logical stream the call started with
C40_IncompleteKeepsBytes ==
    [][(result'.op = "readexactly" /\ result'.exc = "IncompleteReadError") =>
          result'.ret \o Logical(buffer', src') = Logical(buffer, src)]_vars

============================================================================
